---- MODULE Spec2Model ----
(***************************************************************************)
(* Middleware control plane: the operation registry, the request handlers  *)
(* that create operations, and the two executors that run them.            *)
(*                                                                         *)
(* Two deployments are modelled by one state machine, selected by the      *)
(* variable backend:                                                       *)
(*   "gateway"  app/api/v1/middleware.py + middleware_operations.py        *)
(*              (in-process dictionaries, asyncio background tasks)        *)
(*   "durable"  middleware_manager/views.py + tasks.py + models.py         *)
(*              (database rows, Celery workers)                            *)
(***************************************************************************)
EXTENDS Integers, Sequences, FiniteSets, Bags, TLC

VARIABLES
    backend,        \* which deployment this behaviour belongs to
    MIDDLEWARE_DB,  \* instance id -> [type, version, status, config]
    OPERATIONS_DB,  \* sequence of operation records; operation_id = index
    tasks,          \* bag of executor invocations scheduled and not yet started
    runs,           \* bag of executor runs that have started and not yet ended
    handler,        \* durable view between .delay() and its Response, or None
    response,       \* the last HTTP response sent to a caller
    scheduled,      \* number of executor invocations scheduled so far
    forwarded,      \* gateway proxy: the last request sent upstream, or None
    wrapper,        \* the frame of a running retry wrapper and what it wraps
    check,          \* a MiddlewareHealthCheck object and its evaluations
    now,            \* timezone.now() / time.time(), in seconds
    alerter,        \* an AlertBase object and the alerts it has sent
    health_monitor, \* the HealthMonitor object and its monitor threads
    adapter,        \* a RedisAdapter / MySQLAdapter inside upgrade()
    version_manager, \* the ConfigValidator with its ConfigVersionManager and stored versions
    error_tracker,  \* the ErrorTracker and the files of its log directory
    ip_request      \* a request before verify_ip_whitelist and the verdict on it

vars == <<backend, MIDDLEWARE_DB, OPERATIONS_DB, tasks, runs, handler, response, scheduled>>

\* The objects outside the control plane; its actions leave them alone.
aux_vars ==
    <<forwarded, wrapper, check, now, alerter, health_monitor, adapter,
      version_manager, error_tracker, ip_request>>

\* Bound of the model: executor invocations scheduled in one behaviour.
MaxTasks == 2

\* Python None, for the optional dict- and text-valued fields.
None == [none |-> TRUE]

\* timezone.now(): the model keeps only whether a timestamp was written.
Now == [at |-> "now"]

MIDDLEWARE_TYPES == {"redis", "mysql", "mongodb", "elasticsearch", "rabbitmq"}

OPERATION_TYPES == {"start", "stop", "restart", "upgrade", "config_update"}

\* The seeded registry of the gateway.
GatewaySeed ==
    [m \in {"redis-main", "mysql-main"} |->
        IF m = "redis-main"
        THEN [type |-> "redis", version |-> "6.2.6", status |-> "running",
              config |-> [max_connections |-> 10]]
        ELSE [type |-> "mysql", version |-> "8.0.27", status |-> "running",
              config |-> [max_connections |-> 5]]]

\* A row of the durable registry as MiddlewareCreateSerializer.create leaves it:
\* status takes the model field's default.
DurableRow(type, version, config_data) ==
    [type |-> type, version |-> version, status |-> "stopped", config |-> config_data]

\* ---- inputs of the model -------------------------------------------------

\* Instance types registered in the durable deployment.
RegisteredTypes == {"redis", "elasticsearch"}

\* Instance ids the modelled requests name: one registered instance of the
\* deployment and one id that is not registered.
Ghost == "no-such-middleware"

RequestIds == (IF backend = "gateway" THEN {"redis-main"} ELSE DOMAIN MIDDLEWARE_DB) \cup {Ghost}

\* Bodies of the modelled upgrade requests: the registered version without and
\* with force, and a newer version; backup given both ways.
UpgradeRequests ==
    {[target_version |-> "6.2.6", backup |-> TRUE,  force |-> FALSE],
     [target_version |-> "6.2.6", backup |-> FALSE, force |-> TRUE],
     [target_version |-> "7.0.0", backup |-> TRUE,  force |-> FALSE]}

\* A JSON value that is not an object (the durable serializer's JSONField takes it).
NotADict == [json_number |-> 5]

\* Bodies of the modelled config-update requests.
ConfigRequests ==
    {[config |-> [max_connections |-> 20], restart_after_update |-> TRUE,  validate_only |-> FALSE],
     [config |-> [max_connections |-> 20], restart_after_update |-> FALSE, validate_only |-> FALSE],
     [config |-> [max_connections |-> 20], restart_after_update |-> TRUE,  validate_only |-> TRUE]}

\* The same, plus a body the durable serializer accepts and the gateway's request
\* model does not: config is a JSON number.
DurableConfigRequests ==
    ConfigRequests \cup
    {[config |-> NotADict, restart_after_update |-> TRUE, validate_only |-> FALSE]}

\* An operation type outside the dispatch table of both executors.
UnsupportedType == "update"

\* An operation id that names no record (ids are 1 .. Len(OPERATIONS_DB)).
NoSuchOperation == MaxTasks + 1

\* ---- records -------------------------------------------------------------

\* A variant of NewOperation that stores the record as already in progress.
NewOperation_in_progress(id, m, type, params) ==
    [operation_id   |-> id,
     middleware_id  |-> m,
     operation_type |-> type,
     status         |-> "in_progress",
     params         |-> params,
     result         |-> None,
     error_message  |-> None,
     completed_at   |-> None]

\* A fresh operation record: middleware.py:130-141, views.py:64-68 with the
\* defaults of models.py:77-83.
NewOperation(id, m, type, params) ==
    [operation_id   |-> id,
     middleware_id  |-> m,
     operation_type |-> type,
     status         |-> "pending",
     params         |-> params,
     result         |-> None,
     error_message  |-> None,
     completed_at   |-> None]

TaskMessage(id, type, m, params) ==
    [operation_id |-> id, operation_type |-> type, middleware_id |-> m, params |-> params]

OperationIds == 1 .. Len(OPERATIONS_DB)

Terminal == {"completed", "failed"}

Init ==
    /\ backend \in {"gateway", "durable"}
    /\ IF backend = "gateway"
       THEN MIDDLEWARE_DB = GatewaySeed
       ELSE \E t \in RegisteredTypes :
              MIDDLEWARE_DB = [m \in {"mw-1"} |-> DurableRow(t, "6.2.6", [max_connections |-> 10])]
    /\ OPERATIONS_DB = << >>
    /\ tasks = EmptyBag
    /\ runs = EmptyBag
    /\ handler = None
    /\ response = [status_code |-> 0, body |-> None]
    /\ scheduled = 0
    /\ forwarded = None
    /\ wrapper = None
    /\ check = None
    /\ now = 0
    /\ alerter = None
    /\ health_monitor = None
    /\ adapter = None
    /\ version_manager = None
    /\ error_tracker = None
    /\ ip_request = None

\* ---- request handlers: gateway (app/api/v1/middleware.py) -----------------

\* raise HTTPException(status_code, detail): nothing but the response changes.
HTTPException(status_code, detail, m) ==
    /\ response' = [status_code |-> status_code, body |-> [detail |-> detail, id |-> m]]
    /\ UNCHANGED <<backend, MIDDLEWARE_DB, OPERATIONS_DB, tasks, runs, handler, scheduled>>

\* OPERATIONS_DB.append(operation); background_tasks.add_task(...); return operation.
\* The background task starts only after the response has been sent.
GatewayAccept(m, type, params, task_params) ==
    LET operation == NewOperation(Len(OPERATIONS_DB) + 1, m, type, params)
    IN  /\ scheduled < MaxTasks
        /\ OPERATIONS_DB' = Append(OPERATIONS_DB, operation)
        /\ tasks' = tasks (+) SetToBag({TaskMessage(operation.operation_id, type, m, task_params)})
        /\ scheduled' = scheduled + 1
        /\ response' = [status_code |-> 200, body |-> operation]
        /\ UNCHANGED <<backend, MIDDLEWARE_DB, runs, handler>>

\* A variant of the guard of start that lets every request through.
AlreadyRunning_never(middleware) == middleware.status = "running" /\ FALSE

\* The guard of start: the instance is already in the state start leads to.
AlreadyRunning(middleware) == middleware.status = "running"

\* The guard of stop.
AlreadyStopped(middleware) == middleware.status = "stopped"

\* A variant of the guard of upgrade that does not look at force.
AlreadyAtVersion_ignoring_force(middleware, target_version, force) ==
    middleware.version = target_version

\* The guard of upgrade.
AlreadyAtVersion(middleware, target_version, force) ==
    middleware.version = target_version /\ ~force

start_middleware(m) ==
    /\ backend = "gateway"
    /\ IF m \notin DOMAIN MIDDLEWARE_DB
       THEN HTTPException(404, "not_exists", m)
       ELSE IF AlreadyRunning(MIDDLEWARE_DB[m])
       THEN HTTPException(400, "already_running", m)
       ELSE GatewayAccept(m, "start", None, None)

stop_middleware(m) ==
    /\ backend = "gateway"
    /\ IF m \notin DOMAIN MIDDLEWARE_DB
       THEN HTTPException(404, "not_exists", m)
       ELSE IF AlreadyStopped(MIDDLEWARE_DB[m])
       THEN HTTPException(400, "already_stopped", m)
       ELSE GatewayAccept(m, "stop", None, None)

restart_middleware(m) ==
    /\ backend = "gateway"
    /\ IF m \notin DOMAIN MIDDLEWARE_DB
       THEN HTTPException(404, "not_exists", m)
       ELSE GatewayAccept(m, "restart", None, None)

\* upgrade_request.dict(): the task receives the whole request model.
upgrade_middleware(m, target_version, backup, force) ==
    /\ backend = "gateway"
    /\ IF m \notin DOMAIN MIDDLEWARE_DB
       THEN HTTPException(404, "not_exists", m)
       ELSE IF AlreadyAtVersion(MIDDLEWARE_DB[m], target_version, force)
       THEN HTTPException(400, "already_at_version", m)
       ELSE GatewayAccept(m, "upgrade",
                [target_version |-> target_version, backup |-> backup,
                 force |-> force, schedule_time |-> None],
                [middleware_id |-> m, target_version |-> target_version,
                 schedule_time |-> None, backup |-> backup, force |-> force])

\* A variant of update_middleware_config without the validate_only branch.
update_middleware_config_always_applies(m, config, restart_after_update, validate_only) ==
    /\ backend = "gateway"
    /\ IF m \notin DOMAIN MIDDLEWARE_DB
       THEN HTTPException(404, "not_exists", m)
       ELSE GatewayAccept(m, "config_update",
                [config |-> config, restart_after_update |-> restart_after_update],
                [middleware_id |-> m, config |-> config,
                 restart_after_update |-> restart_after_update,
                 validate_only |-> validate_only])

\* The record returned for validate_only is built for the response alone:
\* it is neither appended to OPERATIONS_DB nor handed to a background task.
update_middleware_config(m, config, restart_after_update, validate_only) ==
    /\ backend = "gateway"
    /\ IF m \notin DOMAIN MIDDLEWARE_DB
       THEN HTTPException(404, "not_exists", m)
       ELSE IF validate_only
       THEN /\ response' =
                 [status_code |-> 200,
                  body |-> [NewOperation(NoSuchOperation, m, "config_update",
                                         [validate_only |-> TRUE])
                            EXCEPT !.status = "completed",
                                   !.result = [valid |-> TRUE]]]
            /\ UNCHANGED <<backend, MIDDLEWARE_DB, OPERATIONS_DB, tasks, runs,
                           handler, scheduled>>
       ELSE GatewayAccept(m, "config_update",
                [config |-> config, restart_after_update |-> restart_after_update],
                [middleware_id |-> m, config |-> config,
                 restart_after_update |-> restart_after_update,
                 validate_only |-> validate_only])

\* ---- request handlers: durable (middleware_manager/views.py) --------------

\* Response(..., status=...) without an operation: nothing but the response changes.
\* get_object() answers 404 for an id with no row.
Response(status_code, detail, m) ==
    /\ response' = [status_code |-> status_code, body |-> [detail |-> detail, id |-> m]]
    /\ UNCHANGED <<backend, MIDDLEWARE_DB, OPERATIONS_DB, tasks, runs, handler, scheduled>>

\* MiddlewareOperation.objects.create(...); process_middleware_operation.delay(...).
\* The view still holds its own copy of the row when the message is on the broker;
\* the Response is built from that copy in a later step (ViewSet_respond).
DurableAccept(m, type, params, task_params) ==
    LET operation == NewOperation(Len(OPERATIONS_DB) + 1, m, type, params)
    IN  /\ scheduled < MaxTasks
        /\ OPERATIONS_DB' = Append(OPERATIONS_DB, operation)
        /\ tasks' = tasks (+) SetToBag({TaskMessage(operation.operation_id, type, m, task_params)})
        /\ scheduled' = scheduled + 1
        /\ handler' = [operation |-> operation]
        /\ UNCHANGED <<backend, MIDDLEWARE_DB, runs, response>>

\* serializer = MiddlewareOperationSerializer(operation); return Response(serializer.data)
ViewSet_respond ==
    /\ backend = "durable"
    /\ handler # None
    /\ response' = [status_code |-> 200, body |-> handler.operation]
    /\ handler' = None
    /\ UNCHANGED <<backend, MIDDLEWARE_DB, OPERATIONS_DB, tasks, runs, scheduled>>

ViewSet_start(m) ==
    /\ backend = "durable" /\ handler = None
    /\ IF m \notin DOMAIN MIDDLEWARE_DB
       THEN Response(404, "not_found", m)
       ELSE IF AlreadyRunning(MIDDLEWARE_DB[m])
       THEN Response(400, "already_running", m)
       ELSE DurableAccept(m, "start", None, None)

ViewSet_stop(m) ==
    /\ backend = "durable" /\ handler = None
    /\ IF m \notin DOMAIN MIDDLEWARE_DB
       THEN Response(404, "not_found", m)
       ELSE IF AlreadyStopped(MIDDLEWARE_DB[m])
       THEN Response(400, "already_stopped", m)
       ELSE DurableAccept(m, "stop", None, None)

ViewSet_restart(m) ==
    /\ backend = "durable" /\ handler = None
    /\ IF m \notin DOMAIN MIDDLEWARE_DB
       THEN Response(404, "not_found", m)
       ELSE DurableAccept(m, "restart", None, None)

\* is_valid: whether the body passes MiddlewareUpgradeSerializer; validated_data
\* holds target_version and the defaults-filled backup and force.
ViewSet_upgrade(m, is_valid, target_version, backup, force) ==
    /\ backend = "durable" /\ handler = None
    /\ IF m \notin DOMAIN MIDDLEWARE_DB
       THEN Response(404, "not_found", m)
       ELSE IF ~is_valid
       THEN Response(400, "serializer_errors", m)
       ELSE IF AlreadyAtVersion(MIDDLEWARE_DB[m], target_version, force)
       THEN Response(400, "already_at_version", m)
       ELSE LET validated_data == [target_version |-> target_version,
                                   backup |-> backup, force |-> force]
            IN  DurableAccept(m, "upgrade", validated_data, validated_data)

ViewSet_update_config(m, is_valid, config, restart_after_update, validate_only) ==
    /\ backend = "durable" /\ handler = None
    /\ IF m \notin DOMAIN MIDDLEWARE_DB
       THEN Response(404, "not_found", m)
       ELSE IF ~is_valid
       THEN Response(400, "serializer_errors", m)
       ELSE IF validate_only
       THEN /\ response' = [status_code |-> 200, body |-> [valid |-> TRUE]]
            /\ UNCHANGED <<backend, MIDDLEWARE_DB, OPERATIONS_DB, tasks, runs,
                           handler, scheduled>>
       ELSE LET validated_data == [config |-> config,
                                   restart_after_update |-> restart_after_update,
                                   validate_only |-> validate_only]
            IN  DurableAccept(m, "config_update", validated_data, validated_data)

\* ---- lifecycle actions (middleware_operations.py:72-189, tasks.py:76-218) --

\* params.get(key, default)
Get(params, key, default) == IF key \in DOMAIN params THEN params[key] ELSE default

\* dict.update(other)
DictUpdate(old, new) ==
    [k \in DOMAIN old \cup DOMAIN new |-> IF k \in DOMAIN new THEN new[k] ELSE old[k]]

\* The steps the action of an operation type performs, in order.
\*   start         -> start_middleware_service
\*   stop          -> stop_middleware_service
\*   restart       -> stop, then start
\*   upgrade       -> status 'updating'; then version and status 'running'
\*   config_update -> merge the config; touch the instance; restart if asked
Steps(operation_type, params) ==
    CASE operation_type = "start"   -> <<"start">>
      [] operation_type = "stop"    -> <<"stop">>
      [] operation_type = "restart" -> <<"stop", "start">>
      [] operation_type = "upgrade" -> <<"set_updating", "swap">>
      [] operation_type = "config_update" ->
            <<"merge_config", "touch">> \o
            (IF Get(params, "restart_after_update", TRUE) THEN <<"stop", "start">> ELSE << >>)

\* What one step assigns to the instance object it was handed.
Effect(step, middleware, params) ==
    CASE step = "start"        -> [middleware EXCEPT !.status = "running"]
      [] step = "stop"         -> [middleware EXCEPT !.status = "stopped"]
      [] step = "set_updating" -> [middleware EXCEPT !.status = "updating"]
      [] step = "swap"         -> [middleware EXCEPT !.version = params.target_version,
                                                     !.status = "running"]
      [] step = "merge_config" -> [middleware EXCEPT
                                      !.config = DictUpdate(@, Get(params, "config", << >>))]
      [] step = "touch"        -> middleware

\* str(e) of the errors the executors raise.
NotExistsError(middleware_id) == [message |-> "middleware_not_exists", arg |-> middleware_id]

UnsupportedError(operation_type) == [message |-> "unsupported_operation_type", arg |-> operation_type]

NotIterableError == [message |-> "object_is_not_iterable", arg |-> "int"]

\* ---- executor: gateway background task (middleware_operations.py:13-70) ---

\* The steps of the gateway that begin with an await (asyncio.sleep) before they
\* assign: the coroutine yields to the event loop there.
Awaited(step) == step \in {"start", "stop", "swap"}

\* Run the steps at the head of todo that need no await; stop at the first await.
RECURSIVE UntilAwait(_, _, _)
UntilAwait(middleware, todo, params) ==
    IF todo = << >> \/ Awaited(Head(todo))
    THEN [middleware |-> middleware, todo |-> todo]
    ELSE UntilAwait(Effect(Head(todo), middleware, params), Tail(todo), params)

\* A variant of gateway_completed that writes the result and leaves the status.
gateway_completed_without_status(operation) ==
    [operation EXCEPT !.result = [success |-> TRUE]]

\* operation["status"] = "completed"; operation["result"] = {"success": True}
gateway_completed(operation) ==
    [operation EXCEPT !.status = "completed", !.result = [success |-> TRUE]]

\* operation["status"] = "failed"; operation["error_message"] = str(e)
gateway_failed(operation, error_message) ==
    [operation EXCEPT !.status = "failed", !.error_message = error_message]

\* operation["status"] = "in_progress": written whatever the status was.
claim(operation) == [operation EXCEPT !.status = "in_progress"]

Run(t, todo, middleware, pc, exc) ==
    [operation_id |-> t.operation_id, operation_type |-> t.operation_type,
     middleware_id |-> t.middleware_id, params |-> t.params,
     todo |-> todo, middleware |-> middleware, pc |-> pc, exc |-> exc]

\* From the start of the coroutine to its first await, or to its end.
process_middleware_operation(t) ==
    /\ backend = "gateway"
    /\ BagIn(t, tasks)
    /\ tasks' = tasks (-) SetToBag({t})
    /\ LET id == t.operation_id
           m  == t.middleware_id
       IN  IF id \notin OperationIds
           THEN UNCHANGED <<MIDDLEWARE_DB, OPERATIONS_DB, runs>>
           ELSE IF m \notin DOMAIN MIDDLEWARE_DB
           THEN /\ OPERATIONS_DB' = [OPERATIONS_DB EXCEPT
                                        ![id] = gateway_failed(claim(@), NotExistsError(m))]
                /\ UNCHANGED <<MIDDLEWARE_DB, runs>>
           ELSE IF t.operation_type \notin OPERATION_TYPES
           THEN /\ OPERATIONS_DB' = [OPERATIONS_DB EXCEPT
                                        ![id] = gateway_failed(claim(@),
                                                    UnsupportedError(t.operation_type))]
                /\ UNCHANGED <<MIDDLEWARE_DB, runs>>
           ELSE LET seg == UntilAwait(MIDDLEWARE_DB[m],
                                      Steps(t.operation_type, t.params), t.params)
                IN  /\ MIDDLEWARE_DB' = [MIDDLEWARE_DB EXCEPT ![m] = seg.middleware]
                    /\ IF seg.todo = << >>
                       THEN /\ OPERATIONS_DB' = [OPERATIONS_DB EXCEPT
                                                    ![id] = gateway_completed(claim(@))]
                            /\ runs' = runs
                       ELSE /\ OPERATIONS_DB' = [OPERATIONS_DB EXCEPT ![id] = claim(@)]
                            /\ runs' = runs (+) SetToBag({Run(t, seg.todo, None, "await", None)})
    /\ UNCHANGED <<backend, handler, response, scheduled>>

\* From the return of one await to the next await, or to the end.
process_middleware_operation_resume(r) ==
    /\ backend = "gateway"
    /\ BagIn(r, runs)
    /\ LET id  == r.operation_id
           m   == r.middleware_id
           seg == UntilAwait(Effect(Head(r.todo), MIDDLEWARE_DB[m], r.params),
                             Tail(r.todo), r.params)
       IN  /\ MIDDLEWARE_DB' = [MIDDLEWARE_DB EXCEPT ![m] = seg.middleware]
           /\ IF seg.todo = << >>
              THEN /\ OPERATIONS_DB' = [OPERATIONS_DB EXCEPT ![id] = gateway_completed(@)]
                   /\ runs' = runs (-) SetToBag({r})
              ELSE /\ OPERATIONS_DB' = OPERATIONS_DB
                   /\ runs' = (runs (-) SetToBag({r})) (+)
                                SetToBag({[r EXCEPT !.todo = seg.todo]})
    /\ UNCHANGED <<backend, tasks, handler, response, scheduled>>

\* ---- executor: Celery task (tasks.py:11-73, models.py:93-105) -------------

\* MiddlewareOperation.mark_completed
mark_completed(operation, result) ==
    [operation EXCEPT !.status = "completed",
                      !.result = IF result = None THEN [success |-> TRUE] ELSE result,
                      !.completed_at = Now]

\* A variant of mark_failed that stores the message as the result.
mark_failed_as_result(operation, error_message) ==
    [operation EXCEPT !.status = "failed",
                      !.result = error_message,
                      !.completed_at = Now]

\* MiddlewareOperation.mark_failed
mark_failed(operation, error_message) ==
    [operation EXCEPT !.status = "failed",
                      !.error_message = error_message,
                      !.completed_at = Now]

\* The value the action of an operation type returns (tasks.py:97,121,138,179,218).
ActionResult(operation_type, params) ==
    CASE operation_type = "upgrade" ->
            [success |-> TRUE, version |-> params.target_version]
      [] operation_type = "config_update" ->
            [success |-> TRUE, config_updated |-> TRUE,
             restarted |-> Get(params, "restart_after_update", TRUE)]
      [] OTHER -> [success |-> TRUE]

\* Model.save() of the worker's instance object: every column of the row is
\* written from the object, the configuration lives in its own row.
SaveRow(row, middleware) ==
    [row EXCEPT !.type = middleware.type, !.version = middleware.version,
                !.status = middleware.status]

Replace(r, r2) == (runs (-) SetToBag({r})) (+) SetToBag({r2})

\* tasks.py:26-32: with transaction.atomic(): select_for_update().get(); status =
\* 'in_progress'; save(). The row lock is released when the block ends. For an
\* operation_id without a row, get() raises, the handler's own get() raises too
\* and is only logged.
worker_claim(t) ==
    /\ backend = "durable"
    /\ BagIn(t, tasks)
    /\ tasks' = tasks (-) SetToBag({t})
    /\ IF t.operation_id \notin OperationIds
       THEN UNCHANGED <<OPERATIONS_DB, runs>>
       ELSE /\ OPERATIONS_DB' = [OPERATIONS_DB EXCEPT ![t.operation_id] = claim(@)]
            /\ runs' = runs (+) SetToBag({Run(t, << >>, None, "load", None)})
    /\ UNCHANGED <<backend, MIDDLEWARE_DB, handler, response, scheduled>>

\* tasks.py:35-52: Middleware.objects.get(id=middleware_id) and the dispatch.
worker_load(r) ==
    /\ backend = "durable"
    /\ BagIn(r, runs) /\ r.pc = "load"
    /\ runs' = Replace(r,
          IF r.middleware_id \notin DOMAIN MIDDLEWARE_DB
          THEN [r EXCEPT !.pc = "except", !.exc = NotExistsError(r.middleware_id)]
          ELSE IF r.operation_type \notin OPERATION_TYPES
          THEN [r EXCEPT !.pc = "except", !.exc = UnsupportedError(r.operation_type)]
          ELSE [r EXCEPT !.pc = "act",
                         !.middleware = MIDDLEWARE_DB[r.middleware_id],
                         !.todo = Steps(r.operation_type, r.params)])
    /\ UNCHANGED <<backend, MIDDLEWARE_DB, OPERATIONS_DB, tasks, handler, response, scheduled>>

\* One step of the action: the assignment to the worker's object and its save().
\* merge_config reads the config row, updates it and saves it (tasks.py:196-205);
\* config_data.update(new_config) raises for a new_config that is no mapping.
worker_act(r) ==
    /\ backend = "durable"
    /\ BagIn(r, runs) /\ r.pc = "act"
    /\ LET step == Head(r.todo)
           m    == r.middleware_id
           next == IF Tail(r.todo) = << >> THEN "complete" ELSE "act"
       IN  IF step = "merge_config"
           THEN IF Get(r.params, "config", << >>) = NotADict
                THEN /\ runs' = Replace(r, [r EXCEPT !.pc = "except", !.exc = NotIterableError])
                     /\ UNCHANGED MIDDLEWARE_DB
                ELSE /\ MIDDLEWARE_DB' = [MIDDLEWARE_DB EXCEPT
                                             ![m] = Effect(step, @, r.params)]
                     /\ runs' = Replace(r, [r EXCEPT !.todo = Tail(@), !.pc = next])
           ELSE LET middleware == Effect(step, r.middleware, r.params)
                IN  /\ MIDDLEWARE_DB' = [MIDDLEWARE_DB EXCEPT ![m] = SaveRow(@, middleware)]
                    /\ runs' = Replace(r, [r EXCEPT !.todo = Tail(@), !.pc = next,
                                                    !.middleware = middleware])
    /\ UNCHANGED <<backend, OPERATIONS_DB, tasks, handler, response, scheduled>>

\* tasks.py:55-57: with transaction.atomic(): refresh_from_db(); mark_completed(result)
worker_complete(r) ==
    /\ backend = "durable"
    /\ BagIn(r, runs) /\ r.pc = "complete"
    /\ OPERATIONS_DB' = [OPERATIONS_DB EXCEPT
            ![r.operation_id] = mark_completed(@, ActionResult(r.operation_type, r.params))]
    /\ runs' = runs (-) SetToBag({r})
    /\ UNCHANGED <<backend, MIDDLEWARE_DB, tasks, handler, response, scheduled>>

\* tasks.py:62-73: with transaction.atomic(): select_for_update().get(); mark_failed(str(e))
worker_except(r) ==
    /\ backend = "durable"
    /\ BagIn(r, runs) /\ r.pc = "except"
    /\ OPERATIONS_DB' = [OPERATIONS_DB EXCEPT ![r.operation_id] = mark_failed(@, r.exc)]
    /\ runs' = runs (-) SetToBag({r})
    /\ UNCHANGED <<backend, MIDDLEWARE_DB, tasks, handler, response, scheduled>>

\* ---- invocations of the executor from outside the request handlers --------

\* process_middleware_operation is a module-level coroutine in the gateway and a
\* registered task in the durable deployment: either can be called (or, by the
\* broker, delivered again) for an operation id with any arguments.
InvokeExecutor(id, operation_type, m) ==
    /\ scheduled < MaxTasks
    /\ tasks' = tasks (+) SetToBag({TaskMessage(id, operation_type, m,
                    IF id \in OperationIds THEN OPERATIONS_DB[id].params ELSE None)})
    /\ scheduled' = scheduled + 1
    /\ UNCHANGED <<backend, MIDDLEWARE_DB, OPERATIONS_DB, runs, handler, response>>

\* ---- specification ------------------------------------------------------

Next ==
    \/ \E m \in RequestIds : start_middleware(m) /\ UNCHANGED aux_vars
    \/ \E m \in RequestIds : stop_middleware(m) /\ UNCHANGED aux_vars
    \/ \E m \in RequestIds : restart_middleware(m) /\ UNCHANGED aux_vars
    \/ \E m \in RequestIds, q \in UpgradeRequests :
          upgrade_middleware(m, q.target_version, q.backup, q.force) /\ UNCHANGED aux_vars
    \/ \E m \in RequestIds, q \in ConfigRequests :
          update_middleware_config(m, q.config, q.restart_after_update, q.validate_only) /\ UNCHANGED aux_vars
    \/ \E m \in RequestIds : ViewSet_start(m) /\ UNCHANGED aux_vars
    \/ \E m \in RequestIds : ViewSet_stop(m) /\ UNCHANGED aux_vars
    \/ \E m \in RequestIds : ViewSet_restart(m) /\ UNCHANGED aux_vars
    \/ \E m \in RequestIds, is_valid \in BOOLEAN, q \in UpgradeRequests :
          ViewSet_upgrade(m, is_valid, q.target_version, q.backup, q.force) /\ UNCHANGED aux_vars
    \/ \E m \in RequestIds, is_valid \in BOOLEAN, q \in DurableConfigRequests :
          ViewSet_update_config(m, is_valid, q.config, q.restart_after_update, q.validate_only) /\ UNCHANGED aux_vars
    \/ ViewSet_respond /\ UNCHANGED aux_vars
    \/ \E t \in BagToSet(tasks) : process_middleware_operation(t) /\ UNCHANGED aux_vars
    \/ \E r \in BagToSet(runs) : process_middleware_operation_resume(r) /\ UNCHANGED aux_vars
    \/ \E t \in BagToSet(tasks) : worker_claim(t) /\ UNCHANGED aux_vars
    \/ \E r \in BagToSet(runs) : worker_load(r) /\ UNCHANGED aux_vars
    \/ \E r \in BagToSet(runs) : worker_act(r) /\ UNCHANGED aux_vars
    \/ \E r \in BagToSet(runs) : worker_complete(r) /\ UNCHANGED aux_vars
    \/ \E r \in BagToSet(runs) : worker_except(r) /\ UNCHANGED aux_vars
    \/ \E id \in OperationIds :
          \E operation_type \in {OPERATIONS_DB[id].operation_type, UnsupportedType},
             m \in {OPERATIONS_DB[id].middleware_id, Ghost} :
                InvokeExecutor(id, operation_type, m) /\ UNCHANGED aux_vars
    \/ \E m \in DOMAIN MIDDLEWARE_DB : InvokeExecutor(NoSuchOperation, "start", m) /\ UNCHANGED aux_vars

\* Every step of the two executors and the return of a durable view.
Execute ==
    \/ \E t \in BagToSet(tasks) : process_middleware_operation(t) \/ worker_claim(t)
    \/ \E r \in BagToSet(runs) :
          \/ process_middleware_operation_resume(r)
          \/ worker_load(r)
          \/ worker_act(r)
          \/ worker_complete(r)
          \/ worker_except(r)

Spec == Init /\ [][Next]_vars

\* The executors are scheduled: a started background task is resumed by the event
\* loop, a queued Celery message is consumed by a worker, and a view returns.
FairSpec == Spec /\ WF_vars(Execute) /\ WF_vars(ViewSet_respond)

\* ======================= claims ============================================

\* ---- C1 ----
\* C1: an operation's status changes only along pending -> in_progress,
\* in_progress -> completed and in_progress -> failed. A gateway run that reaches
\* its end without an await writes in_progress and the terminal status in one
\* step of the event loop, so pending -> terminal is that same path there.
\* (Stated as the claim has it; the executors violate it.)
AllowedTransition(old, new) ==
    \/ old = "pending" /\ new = "in_progress"
    \/ old = "in_progress" /\ new \in Terminal
    \/ backend = "gateway" /\ old = "pending" /\ new \in Terminal

C1_StatusOnlyAlongLifecycle ==
    [][\A id \in OperationIds :
          OPERATIONS_DB'[id].status # OPERATIONS_DB[id].status
            => AllowedTransition(OPERATIONS_DB[id].status, OPERATIONS_DB'[id].status)]_vars

\* ---- C2 ----
\* C2: once an operation's status is completed or failed, the record (status,
\* result, error_message) never changes again, whatever executor invocations
\* follow. (Stated as the claim has it; the executors violate it.)
C2_TerminalIsFinal ==
    [][\A id \in OperationIds :
          OPERATIONS_DB[id].status \in Terminal
            => OPERATIONS_DB'[id] = OPERATIONS_DB[id]]_vars

\* ---- C3 ----
\* C3: in the durable deployment two workers never both hold the same operation
\* claimed and both execute its action. (Stated as the claim has it; violated.)
Executing(id) ==
    {r \in BagToSet(runs) : r.operation_id = id /\ r.pc \in {"act", "complete"}}

C3_AtMostOneWorkerClaims ==
    backend = "durable" =>
        \A id \in OperationIds :
            \A r \in Executing(id) : CopiesIn(r, runs) = 1 /\ Executing(id) = {r}

\* ---- C4 ----
\* The step in which a request handler stores a new operation.
Accepts == Len(OPERATIONS_DB') # Len(OPERATIONS_DB)

\* The step in which a caller receives the record of a stored operation.
Returns ==
    /\ response' # response
    /\ response'.status_code = 200
    /\ "operation_id" \in DOMAIN response'.body
    /\ response'.body.operation_id \in 1 .. Len(OPERATIONS_DB')

\* An accepted request stores exactly one record, pending and with nothing set,
\* and schedules exactly one executor run, for that record.
OneRecordOneRun ==
    LET id == Len(OPERATIONS_DB) + 1
    IN  /\ Len(OPERATIONS_DB') = id
        /\ SubSeq(OPERATIONS_DB', 1, Len(OPERATIONS_DB)) = OPERATIONS_DB
        /\ OPERATIONS_DB'[id].operation_id = id
        /\ OPERATIONS_DB'[id].status = "pending"
        /\ OPERATIONS_DB'[id].result = None
        /\ OPERATIONS_DB'[id].error_message = None
        /\ \E t \in BagToSet(tasks') :
              /\ tasks' = tasks (+) SetToBag({t})
              /\ t.operation_id = id
              /\ t.operation_type = OPERATIONS_DB'[id].operation_type
              /\ t.middleware_id = OPERATIONS_DB'[id].middleware_id
        /\ runs' = runs
        /\ MIDDLEWARE_DB' = MIDDLEWARE_DB

\* The executor has not touched the returned operation when it is returned: the
\* stored record is the returned one and no run for it has started.
BeforeExecutor ==
    LET id == response'.body.operation_id
    IN  /\ OPERATIONS_DB'[id] = response'.body
        /\ \A r \in BagToSet(runs') : r.operation_id # id

\* C4 as stated: every accepted request creates exactly one pending operation and
\* schedules exactly one run, and the record is returned with status pending
\* before the executor has changed the operation or the instance. (The durable
\* deployment violates the last part.)
C4_ReturnedBeforeExecutor ==
    [][/\ Accepts => OneRecordOneRun
       /\ Returns => response'.body.status = "pending" /\ BeforeExecutor]_vars

\* C4, amended: every accepted request creates exactly one pending operation and
\* schedules exactly one run, and the record is returned with status pending; in
\* the gateway it is returned before the executor has changed the operation or
\* the instance.
C4_ReturnedPending ==
    [][/\ Accepts => OneRecordOneRun
       /\ Returns => /\ response'.body.status = "pending"
                     /\ response'.body.result = None
                     /\ response'.body.error_message = None
                     /\ backend = "gateway" => BeforeExecutor]_vars

\* A durable caller holds a pending record of an operation that a worker has
\* already claimed.
C4_Witness ==
    /\ response.status_code = 200
    /\ "operation_id" \in DOMAIN response.body
    /\ response.body.operation_id \in OperationIds
    /\ response.body.status = "pending"
    /\ OPERATIONS_DB[response.body.operation_id].status # "pending"
    /\ backend = "durable"

\* ---- C5 ----
\* What the start of a gateway run raises for its arguments, or None.
RaisedAtStart(t) ==
    IF t.middleware_id \notin DOMAIN MIDDLEWARE_DB THEN NotExistsError(t.middleware_id)
    ELSE IF t.operation_type \notin OPERATION_TYPES THEN UnsupportedError(t.operation_type)
    ELSE None

\* The operation is failed with the message of the error, its result is what it
\* was, and neither a response nor a pending view sees anything of it.
FailureRecorded(id, error) ==
    /\ OPERATIONS_DB'[id].status = "failed"
    /\ OPERATIONS_DB'[id].error_message = error
    /\ OPERATIONS_DB'[id].result = OPERATIONS_DB[id].result
    /\ response' = response
    /\ handler' = handler
    /\ MIDDLEWARE_DB' = MIDDLEWARE_DB

\* C5: when the action of a run raises (the instance id does not resolve, the
\* operation type is unsupported, or a step raises), the executor moves the
\* operation to failed, sets error_message to the error's message, leaves the
\* result as it was, and nothing reaches a request.
C5_FailureIsRecorded ==
    [][/\ \A r \in BagToSet(runs) :
             worker_except(r) => FailureRecorded(r.operation_id, r.exc)
       /\ \A t \in BagToSet(tasks) :
             (/\ process_middleware_operation(t)
              /\ t.operation_id \in OperationIds
              /\ RaisedAtStart(t) # None)
                => FailureRecorded(t.operation_id, RaisedAtStart(t))]_vars

\* An operation failed by a run whose instance id did not resolve.
C5_Witness ==
    \E id \in OperationIds :
        /\ OPERATIONS_DB[id].status = "failed"
        /\ OPERATIONS_DB[id].error_message = NotExistsError(Ghost)
        /\ OPERATIONS_DB[id].result = None

\* ---- C6 ----
\* C6: with the executors scheduled, every stored operation reaches completed or
\* failed.
C6_EveryOperationEnds ==
    \A id \in 1 .. MaxTasks :
        (id \in OperationIds) ~>
            (id \in OperationIds /\ OPERATIONS_DB[id].status \in Terminal)

\* Every stored operation has ended and no run is left.
C6_Witness ==
    /\ Len(OPERATIONS_DB) = MaxTasks
    /\ \A id \in OperationIds : OPERATIONS_DB[id].status \in Terminal
    /\ tasks = EmptyBag /\ runs = EmptyBag

\* ---- C7 ----
\* The request is answered 400 with this detail and leaves no trace.
Rejected(detail) ==
    /\ response'.status_code = 400
    /\ "detail" \in DOMAIN response'.body
    /\ response'.body.detail = detail
    /\ UNCHANGED <<MIDDLEWARE_DB, OPERATIONS_DB, tasks, runs, scheduled, handler>>

\* C7: start on an instance whose status is running, and stop on one whose status
\* is stopped, is rejected: no operation is created and no run is scheduled.
C7_NoOpRejected ==
    [][\A m \in DOMAIN MIDDLEWARE_DB :
         /\ ((start_middleware(m) \/ ViewSet_start(m)) /\ MIDDLEWARE_DB[m].status = "running")
               => Rejected("already_running")
         /\ ((stop_middleware(m) \/ ViewSet_stop(m)) /\ MIDDLEWARE_DB[m].status = "stopped")
               => Rejected("already_stopped")]_vars

\* A start request was rejected for an instance that an earlier operation had
\* started.
C7_Witness ==
    /\ response.status_code = 400
    /\ response.body.detail = "already_running"
    /\ MIDDLEWARE_DB[response.body.id].status = "running"
    /\ \E id \in OperationIds :
          /\ OPERATIONS_DB[id].operation_type = "start"
          /\ OPERATIONS_DB[id].status = "completed"
    /\ tasks = EmptyBag /\ runs = EmptyBag

\* ---- C8 ----
\* The request stored one pending upgrade operation with these params and
\* scheduled its run.
UpgradeAccepted(m, q) ==
    LET id == Len(OPERATIONS_DB) + 1
    IN  /\ OneRecordOneRun
        /\ OPERATIONS_DB'[id].operation_type = "upgrade"
        /\ OPERATIONS_DB'[id].middleware_id = m
        /\ OPERATIONS_DB'[id].params.target_version = q.target_version
        /\ OPERATIONS_DB'[id].params.backup = q.backup
        /\ OPERATIONS_DB'[id].params.force = q.force

C9_ValidateOnlyChangesNothing ==
    [][\A m \in DOMAIN MIDDLEWARE_DB, q \in DurableConfigRequests :
         (\/ update_middleware_config(m, q.config, q.restart_after_update, TRUE)
          \/ ViewSet_update_config(m, TRUE, q.config, q.restart_after_update, TRUE))
           => UNCHANGED <<MIDDLEWARE_DB, OPERATIONS_DB, tasks, runs, scheduled>>]_vars

\* A validate_only request was answered and nothing is stored or scheduled.
C9_Witness ==
    /\ response.status_code = 200
    /\ \/ response.body = [valid |-> TRUE]
       \/ /\ "params" \in DOMAIN response.body
          /\ response.body.params = [validate_only |-> TRUE]
    /\ OPERATIONS_DB = << >>
    /\ tasks = EmptyBag

\* ---- C10 ----
\* C10: an operation on an instance of a type whose adapter is a stub is never
\* completed, and the instance keeps its status and version. (Stated as the
\* claim has it; the executors violate it.)
StubTypes == {"elasticsearch", "rabbitmq"}

C10_StubTypesNotImplemented ==
    \A m \in DOMAIN MIDDLEWARE_DB :
        MIDDLEWARE_DB[m].type \in StubTypes =>
            /\ MIDDLEWARE_DB[m].status = "stopped"
            /\ MIDDLEWARE_DB[m].version = "6.2.6"
            /\ \A id \in OperationIds :
                  OPERATIONS_DB[id].middleware_id = m =>
                      OPERATIONS_DB[id].status # "completed"

\* ======================= durable REST resource of an instance ================

\* ModelViewSet gives MiddlewareViewSet the routes PUT and PATCH
\* /middlewares/<id>/; both go through MiddlewareSerializer, whose read-only
\* fields are id and last_updated. The modelled bodies: a new type, a new status,
\* and a status outside STATUS_CHOICES.
STATUS_CHOICES == {"running", "stopped", "updating", "error"}

UpdateRequests == {[type |-> "mysql"], [status |-> "running"], [status |-> "paused"]}

\* serializer.is_valid(): the choice fields take the choices of the model.
UpdateIsValid(data) ==
    /\ "type" \in DOMAIN data => data.type \in MIDDLEWARE_TYPES
    /\ "status" \in DOMAIN data => data.status \in STATUS_CHOICES

\* UpdateModelMixin.update / partial_update: serializer.save() assigns every
\* validated field to the row.
ViewSet_update(m, data) ==
    /\ backend = "durable" /\ handler = None
    /\ IF m \notin DOMAIN MIDDLEWARE_DB
       THEN Response(404, "not_found", m)
       ELSE IF ~UpdateIsValid(data)
       THEN Response(400, "serializer_errors", m)
       ELSE /\ MIDDLEWARE_DB' = [MIDDLEWARE_DB EXCEPT ![m] = DictUpdate(@, data)]
            /\ response' = [status_code |-> 200, body |-> MIDDLEWARE_DB'[m]]
            /\ UNCHANGED <<backend, OPERATIONS_DB, tasks, runs, handler, scheduled>>

\* The durable deployment with one redis instance registered.
RestInit ==
    /\ Init
    /\ backend = "durable"
    /\ \A m \in DOMAIN MIDDLEWARE_DB : MIDDLEWARE_DB[m].type = "redis"

RestNext ==
    \/ \E m \in RequestIds : ViewSet_start(m) /\ UNCHANGED aux_vars
    \/ \E m \in RequestIds : ViewSet_stop(m) /\ UNCHANGED aux_vars
    \/ \E m \in RequestIds : ViewSet_restart(m) /\ UNCHANGED aux_vars
    \/ \E m \in RequestIds, is_valid \in BOOLEAN, q \in UpgradeRequests :
          ViewSet_upgrade(m, is_valid, q.target_version, q.backup, q.force) /\ UNCHANGED aux_vars
    \/ \E m \in RequestIds, data \in UpdateRequests : ViewSet_update(m, data) /\ UNCHANGED aux_vars
    \/ ViewSet_respond /\ UNCHANGED aux_vars
    \/ \E t \in BagToSet(tasks) : worker_claim(t) /\ UNCHANGED aux_vars
    \/ \E r \in BagToSet(runs) : worker_load(r) /\ UNCHANGED aux_vars
    \/ \E r \in BagToSet(runs) : worker_act(r) /\ UNCHANGED aux_vars
    \/ \E r \in BagToSet(runs) : worker_complete(r) /\ UNCHANGED aux_vars

RestSpec == RestInit /\ [][RestNext]_vars

\* ---- C11 ----
\* The step is a step of a lifecycle action of an executor run.
LifecycleStep ==
    \/ \E r \in BagToSet(runs) : worker_act(r) \/ process_middleware_operation_resume(r)
    \/ \E t \in BagToSet(tasks) : process_middleware_operation(t)

\* C11: no step changes the type of an instance, and its status changes only in
\* a step of a lifecycle action; no client request writes either. (Stated as the
\* claim has it; the durable update routes violate it.)
C11_TypeAndStatusWrittenByLifecycleOnly ==
    [][\A m \in DOMAIN MIDDLEWARE_DB :
          /\ MIDDLEWARE_DB'[m].type = MIDDLEWARE_DB[m].type
          /\ MIDDLEWARE_DB'[m].status # MIDDLEWARE_DB[m].status => LifecycleStep]_vars

\* ======================= gateway: authentication and the proxy ===============

\* settings.SECRET_KEY (app/core/config.py); the model keeps of a signature only
\* the key it was made with.
SECRET_KEY == "your-secret-key-here"

\* The Authorization headers of the modelled callers: none; a token signed with
\* the configured key; one signed with another key; one without a subject; one
\* whose exp lies in the past.
NoToken == None

Tokens ==
    {[key |-> SECRET_KEY, payload |-> [sub |-> "user-1", exp |-> "future"]],
     [key |-> "another-key", payload |-> [sub |-> "user-1", exp |-> "future"]],
     [key |-> SECRET_KEY, payload |-> [exp |-> "future"]],
     [key |-> SECRET_KEY, payload |-> [sub |-> "user-1", exp |-> "past"]]}

Callers == Tokens \cup {NoToken}

\* jwt.decode(token, SECRET_KEY, algorithms=[ALGORITHM]): the payload, or None
\* where it raises JWTError (bad signature, expired).
jwt_decode(token) ==
    IF token.key = SECRET_KEY /\ token.payload.exp = "future" THEN token.payload ELSE None

\* get_current_user behind oauth2_scheme: the user, or None where a 401 is raised
\* (no bearer token, JWTError, no sub in the payload).
get_current_user(token) ==
    IF token = NoToken THEN None
    ELSE IF jwt_decode(token) = None THEN None
    ELSE IF "sub" \notin DOMAIN jwt_decode(token) THEN None
    ELSE [user_id |-> jwt_decode(token).sub]

\* A route declared with current_user = Depends(get_current_user): the
\* dependency is resolved first, and the handler runs only if it returned.
Depends_get_current_user(token, m, route_handler) ==
    IF get_current_user(token) = None
    THEN backend = "gateway" /\ HTTPException(401, "invalid_credentials", m)
    ELSE route_handler

\* GET /middleware/{middleware_id}
get_middleware(m) ==
    /\ backend = "gateway"
    /\ IF m \notin DOMAIN MIDDLEWARE_DB
       THEN HTTPException(404, "not_exists", m)
       ELSE /\ response' = [status_code |-> 200, body |-> MIDDLEWARE_DB[m]]
            /\ UNCHANGED <<backend, MIDDLEWARE_DB, OPERATIONS_DB, tasks, runs,
                           handler, scheduled>>

\* Bodies of the modelled proxy requests.
ProxyRequests ==
    {[target_url |-> "http://upstream/a", method |-> "GET"],
     [target_url |-> "http://upstream/b", method |-> "POST"]}

\* POST /proxy: declared without a dependency on get_current_user. The headers of
\* the incoming request, Authorization among them, go upstream with the request;
\* aiohttp.ClientError becomes a 500.
proxy(token, request, upstream_ok) ==
    /\ backend = "gateway"
    /\ forwarded' = [target_url |-> request.target_url, method |-> request.method,
                     authorization |-> token]
    /\ response' = IF upstream_ok
                   THEN [status_code |-> 200, body |-> [proxied |-> request.target_url]]
                   ELSE [status_code |-> 500, body |-> [detail |-> "proxy_failed",
                                                        id |-> request.target_url]]
    /\ UNCHANGED <<backend, MIDDLEWARE_DB, OPERATIONS_DB, tasks, runs, handler, scheduled>>

\* GET /health and GET /info: no dependency, no state.
health_check ==
    /\ backend = "gateway"
    /\ response' = [status_code |-> 200, body |-> [status |-> "ok", version |-> "0.1.0"]]
    /\ UNCHANGED <<backend, MIDDLEWARE_DB, OPERATIONS_DB, tasks, runs, handler, scheduled>>

service_info ==
    /\ backend = "gateway"
    /\ response' = [status_code |-> 200, body |-> [name |-> "PROJECT_NAME", version |-> "0.1.0"]]
    /\ UNCHANGED <<backend, MIDDLEWARE_DB, OPERATIONS_DB, tasks, runs, handler, scheduled>>

\* The objects the gateway routes leave alone.
gateway_aux ==
    <<wrapper, check, now, alerter, health_monitor, adapter,
      version_manager, error_tracker, ip_request>>

GatewayInit == Init /\ backend = "gateway"

GatewayNext ==
    \/ \E token \in Callers, m \in RequestIds :
          Depends_get_current_user(token, m, get_middleware(m)) /\ UNCHANGED aux_vars
    \/ \E token \in Callers, m \in RequestIds :
          Depends_get_current_user(token, m, start_middleware(m)) /\ UNCHANGED aux_vars
    \/ \E token \in Callers, m \in RequestIds :
          Depends_get_current_user(token, m, stop_middleware(m)) /\ UNCHANGED aux_vars
    \/ \E token \in Callers, m \in RequestIds :
          Depends_get_current_user(token, m, restart_middleware(m)) /\ UNCHANGED aux_vars
    \/ \E token \in Callers, m \in RequestIds, q \in UpgradeRequests :
          Depends_get_current_user(token, m,
              upgrade_middleware(m, q.target_version, q.backup, q.force)) /\ UNCHANGED aux_vars
    \/ \E token \in Callers, m \in RequestIds, q \in ConfigRequests :
          Depends_get_current_user(token, m,
              update_middleware_config(m, q.config, q.restart_after_update, q.validate_only))
          /\ UNCHANGED aux_vars
    \/ \E token \in Callers, request \in ProxyRequests, upstream_ok \in BOOLEAN :
          proxy(token, request, upstream_ok) /\ UNCHANGED gateway_aux
    \/ health_check /\ UNCHANGED aux_vars
    \/ service_info /\ UNCHANGED aux_vars
    \/ \E t \in BagToSet(tasks) : process_middleware_operation(t) /\ UNCHANGED aux_vars
    \/ \E r \in BagToSet(runs) : process_middleware_operation_resume(r) /\ UNCHANGED aux_vars

GatewaySpec == GatewayInit /\ [][GatewayNext]_<<vars, forwarded>>

\* ---- C12 ----
\* The caller presented a token that decodes with the configured secret and
\* carries a subject.
Verified(token) ==
    /\ token # NoToken
    /\ token.key = SECRET_KEY
    /\ token.payload.exp = "future"
    /\ "sub" \in DOMAIN token.payload

\* The request was answered 401 and nothing was read, created, scheduled or
\* forwarded.
Unauthorized ==
    /\ response'.status_code = 401
    /\ UNCHANGED <<MIDDLEWARE_DB, OPERATIONS_DB, tasks, runs, scheduled, forwarded>>

\* C12: for a caller that is not verified, no /middleware route reads an instance
\* or creates an operation, and the proxy route forwards nothing. (Stated as the
\* claim has it; the proxy route violates it.)
C12_NothingWithoutVerifiedCaller ==
    [][\A token \in Callers :
          ~Verified(token) =>
            /\ \A m \in RequestIds :
                  (\/ Depends_get_current_user(token, m, get_middleware(m))
                   \/ Depends_get_current_user(token, m, start_middleware(m))
                   \/ Depends_get_current_user(token, m, stop_middleware(m))
                   \/ Depends_get_current_user(token, m, restart_middleware(m)))
                    => Unauthorized
            /\ \A request \in ProxyRequests, upstream_ok \in BOOLEAN :
                  proxy(token, request, upstream_ok) => Unauthorized]_<<vars, forwarded>>

\* ======================= the retry wrappers ==================================

\* Defaults of adapters.retry and of RecoveryManager.retry_operation.
max_attempts == 3

delay == 2

backoff == 2

\* Seconds a wrapped call may take, and seconds time.sleep may overrun.
MaxCallSeconds == 1

MaxOversleep == 1

\* "if attempt >= max_attempts": the attempts are used up.
Exhausted_one_later(attempt) == attempt > max_attempts

Exhausted(attempt) == attempt >= max_attempts

\* "current_delay *= backoff"
NextDelay_flat(current_delay) == current_delay

NextDelay(current_delay) == current_delay * backoff

\* Entry of the decorated function: attempt = 0, current_delay = delay. The
\* record also keeps what the caller can observe: the outcome of every invocation
\* of the wrapped call, when each began and failed, and every sleep.
wrapper_enter(kind) ==
    /\ wrapper = None
    /\ wrapper' = [kind |-> kind, pc |-> "loop", attempt |-> 0, current_delay |-> delay,
                   clock |-> 0, results |-> <<>>, called_at |-> <<>>, failed_at |-> <<>>,
                   slept |-> <<>>, outcome |-> "running"]
    /\ UNCHANGED <<vars, version_manager, error_tracker, ip_request, forwarded,
                    check, now, alerter, health_monitor, adapter>>

\* One pass of "while attempt < max_attempts: try: func() except: ..." up to the
\* sleep: the wrapped call takes `seconds` and returns (ok) or raises. `success`
\* and `failure` are what the wrapper hands to its caller.
wrapper_try(kind, ok, seconds, success, failure) ==
    /\ wrapper # None /\ wrapper.kind = kind /\ wrapper.pc = "loop"
    /\ wrapper.attempt < max_attempts
    /\ LET finished == wrapper.clock + seconds
           called == [wrapper EXCEPT !.results = Append(@, ok),
                                     !.called_at = Append(@, wrapper.clock),
                                     !.clock = finished]
       IN wrapper' =
            IF ok THEN [called EXCEPT !.pc = "done", !.outcome = success]
            ELSE LET failed == [called EXCEPT !.attempt = @ + 1,
                                              !.failed_at = Append(@, finished)]
                 IN IF Exhausted(failed.attempt)
                    THEN [failed EXCEPT !.pc = "done", !.outcome = failure]
                    ELSE [failed EXCEPT !.pc = "sleep"]
    /\ UNCHANGED <<vars, version_manager, error_tracker, ip_request, forwarded,
                    check, now, alerter, health_monitor, adapter>>

\* "time.sleep(current_delay); current_delay *= backoff": the thread sleeps at
\* least current_delay seconds.
wrapper_sleep(kind, oversleep) ==
    /\ wrapper # None /\ wrapper.kind = kind /\ wrapper.pc = "sleep"
    /\ wrapper' = [wrapper EXCEPT !.clock = @ + wrapper.current_delay + oversleep,
                                  !.slept = Append(@, wrapper.current_delay),
                                  !.current_delay = NextDelay(@),
                                  !.pc = "loop"]
    /\ UNCHANGED <<vars, version_manager, error_tracker, ip_request, forwarded,
                    check, now, alerter, health_monitor, adapter>>

\* adapters.retry: returns the value of the call, re-raises its last exception.
retry_try(ok, seconds) == wrapper_try("retry", ok, seconds, "returned", "raised")

retry_sleep(oversleep) == wrapper_sleep("retry", oversleep)

\* RecoveryManager.retry_operation: returns an OperationResult either way.
retry_operation_try(ok, seconds) ==
    wrapper_try("retry_operation", ok, seconds, "success_result", "error_result")

retry_operation_sleep(oversleep) == wrapper_sleep("retry_operation", oversleep)

RetryInit == Init

RetryNext ==
    \/ wrapper_enter("retry")
    \/ wrapper_enter("retry_operation")
    \/ \E ok \in BOOLEAN, seconds \in 0..MaxCallSeconds : retry_try(ok, seconds)
    \/ \E oversleep \in 0..MaxOversleep : retry_sleep(oversleep)
    \/ \E ok \in BOOLEAN, seconds \in 0..MaxCallSeconds : retry_operation_try(ok, seconds)
    \/ \E oversleep \in 0..MaxOversleep : retry_operation_sleep(oversleep)

RetrySpec == RetryInit /\ [][RetryNext]_wrapper

\* ---- C13 ----
Succeeded == wrapper.outcome \in {"returned", "success_result"}

Failed ==
    wrapper.outcome = (IF wrapper.kind = "retry" THEN "raised" ELSE "error_result")

\* C13: under the defaults either wrapper invokes the wrapped call at most three
\* times; a successful invocation is the last one and the wrapper reports
\* success; after three failed invocations it has stopped and reports failure
\* (re-raise for retry, error result for retry_operation); it reports failure in
\* no other case.
C13_AtMostThreeInvocations ==
    wrapper # None =>
      /\ Len(wrapper.results) <= 3
      /\ \A i \in DOMAIN wrapper.results :
            wrapper.results[i] => i = Len(wrapper.results) /\ wrapper.pc = "done" /\ Succeeded
      /\ (Len(wrapper.results) = 3 /\ ~wrapper.results[3]) => wrapper.pc = "done" /\ Failed
      /\ wrapper.outcome \in {"raised", "error_result"} =>
            Failed /\ Len(wrapper.results) = 3 /\ \A i \in 1..3 : ~wrapper.results[i]
      /\ Succeeded =>
            wrapper.outcome = (IF wrapper.kind = "retry" THEN "returned" ELSE "success_result")

C13_Witness ==
    /\ wrapper # None /\ wrapper.kind = "retry_operation"
    /\ wrapper.results = <<FALSE, FALSE, FALSE>> /\ wrapper.outcome = "error_result"

\* ---- C14 ----
RECURSIVE Pow(_, _)
Pow(b, e) == IF e = 0 THEN 1 ELSE b * Pow(b, e - 1)

\* C14: the wait after the k-th failed attempt is delay * backoff^(k-1) seconds
\* (2 s, then 4 s); the next attempt begins no sooner than that after the
\* failure; and there is no wait after the final failed attempt.
C14_BackoffWaits ==
    wrapper # None =>
      /\ \A k \in DOMAIN wrapper.slept :
            /\ wrapper.slept[k] = delay * Pow(backoff, k - 1)
            /\ k + 1 \in DOMAIN wrapper.called_at =>
                  wrapper.called_at[k + 1] >= wrapper.failed_at[k] + wrapper.slept[k]
      /\ \A k \in DOMAIN wrapper.called_at :
            k > 1 => k - 1 \in DOMAIN wrapper.slept
      /\ Len(wrapper.slept) <= 2
      /\ wrapper.outcome \in {"raised", "error_result"} =>
            /\ Len(wrapper.slept) = Len(wrapper.failed_at) - 1
            /\ wrapper.clock = wrapper.failed_at[Len(wrapper.failed_at)]

C14_Witness ==
    /\ wrapper # None /\ wrapper.kind = "retry" /\ wrapper.outcome = "raised"
    /\ wrapper.slept = <<2, 4>>
    /\ wrapper.called_at[3] >= wrapper.failed_at[2] + 4

\* ======================= health checks =======================================

\* MiddlewareHealthCheck.thresholds; response times are in tenths of a second.
thresholds ==
    [memory_usage_warning |-> 70, memory_usage_critical |-> 90,
     cpu_usage_warning |-> 70, cpu_usage_critical |-> 90,
     connection_usage_warning |-> 70, connection_usage_critical |-> 90,
     response_time_warning |-> 10, response_time_critical |-> 30]

max_history == 100

\* A memory figure as Redis prints it ("9M", "922K", "0"): digits and a unit.
MemoryStr(value, unit) == [value |-> value, unit |-> unit]

\* _parse_memory_usage: bytes.
_parse_memory_usage(memory_str) ==
    IF memory_str.value = 0 THEN 0
    ELSE CASE memory_str.unit = "K" -> memory_str.value * 1024
           [] memory_str.unit = "M" -> memory_str.value * 1024 * 1024
           [] OTHER -> memory_str.value

\* What adapter.get_status() reports of memory, CPU and connections; << >> where
\* the adapter reports nothing of the kind.
MemoryReadings ==
    {<< >>}
    \cup {[used_memory_human |-> MemoryStr(u, "M"), maxmemory_human |-> MemoryStr(10, "M")] :
            u \in {5, 7, 9}}
    \cup {[used_memory_human |-> MemoryStr(u, "K"), maxmemory_human |-> MemoryStr(1, "M")] :
            u \in {921, 922}}
    \cup {[used_memory_human |-> MemoryStr(5, "M"), maxmemory_human |-> MemoryStr(0, "")]}

CpuReadings == {<< >>} \cup {[cpu_usage |-> c] : c \in {50, 70, 90}}

ConnectionReadings ==
    {<< >>}
    \cup {[connected_clients |-> c, maxclients |-> 10] : c \in {5, 7, 9}}
    \cup {[connected_clients |-> 5, maxclients |-> 0]}

ResponseTimes == {5, 10, 30}

\* adapter.get_status(): raises, reports failure, or reports the status.
Raises == [raises |-> TRUE]

StatusResults ==
    {Raises, [success |-> FALSE, error |-> "unreachable"]}
    \cup {[success |-> TRUE,
           status |-> [status |-> st] @@ memory @@ cpu @@ connections] :
            st \in {"running", "stopped"}, memory \in MemoryReadings,
            cpu \in CpuReadings, connections \in ConnectionReadings}

\* One appended issue: the metric and the word the message carries
\* ("严重" critical, "警告" warning); none below the warning threshold.
Issue(metric, level) == <<[metric |-> metric, level |-> level]>>

\* percent = (used / limit) * 100, compared with a threshold.
AtLeastPercent(used, limit, threshold) == used * 100 >= threshold * limit

memory_issues(status_info) ==
    IF "used_memory_human" \notin DOMAIN status_info THEN << >>
    ELSE LET memory_usage == _parse_memory_usage(status_info.used_memory_human)
             memory_limit == _parse_memory_usage(
                                Get(status_info, "maxmemory_human", MemoryStr(0, "")))
         IN IF ~(memory_limit > 0) THEN << >>
            ELSE IF AtLeastPercent(memory_usage, memory_limit, thresholds.memory_usage_critical)
                 THEN Issue("memory", "critical")
            ELSE IF AtLeastPercent(memory_usage, memory_limit, thresholds.memory_usage_warning)
                 THEN Issue("memory", "warning")
            ELSE << >>

cpu_issues(status_info) ==
    IF "cpu_usage" \notin DOMAIN status_info THEN << >>
    ELSE IF status_info.cpu_usage >= thresholds.cpu_usage_critical THEN Issue("cpu", "critical")
    ELSE IF status_info.cpu_usage >= thresholds.cpu_usage_warning THEN Issue("cpu", "warning")
    ELSE << >>

connection_issues(status_info) ==
    IF ~("connected_clients" \in DOMAIN status_info /\ "maxclients" \in DOMAIN status_info)
    THEN << >>
    ELSE LET connected == status_info.connected_clients
             max_clients == status_info.maxclients
         IN IF ~(max_clients > 0) THEN << >>
            ELSE IF AtLeastPercent(connected, max_clients, thresholds.connection_usage_critical)
                 THEN Issue("connection", "critical")
            ELSE IF AtLeastPercent(connected, max_clients, thresholds.connection_usage_warning)
                 THEN Issue("connection", "warning")
            ELSE << >>

response_time_issues(response_time) ==
    IF response_time >= thresholds.response_time_critical THEN Issue("response_time", "critical")
    ELSE IF response_time >= thresholds.response_time_warning
         THEN Issue("response_time", "warning")
    ELSE << >>

\* has_critical = any("严重" in issue for issue in issues)
has_critical_never(issues) == FALSE

has_critical(issues) == \E i \in DOMAIN issues : issues[i].level = "critical"

\* The status and message the try block of check() arrives at.
Assessment(status_result, response_time) ==
    IF ~Get(status_result, "success", FALSE)
    THEN [status |-> "critical", message |-> <<"no_status">>]
    ELSE LET status_info == status_result.status
         IN IF Get(status_info, "status", "") # "running"
            THEN [status |-> "critical", message |-> <<"not_running">>]
            ELSE LET issues == memory_issues(status_info) \o cpu_issues(status_info)
                               \o connection_issues(status_info)
                               \o response_time_issues(response_time)
                 IN IF issues = << >>
                    THEN [status |-> "healthy", message |-> <<"ok">>]
                    ELSE [status |-> IF has_critical(issues) THEN "critical" ELSE "warning",
                          message |-> issues]

\* self.history = self.history[-max_history:] when it grew beyond max_history
Trimmed(history) ==
    IF Len(history) > max_history
    THEN SubSeq(history, Len(history) - max_history + 1, Len(history))
    ELSE history

\* HealthCheck.__init__ through MiddlewareHealthCheck.__init__. The record also
\* keeps the last answer of the adapter and the last return value of check().
MiddlewareHealthCheck_init ==
    /\ check = None
    /\ check' = [last_check_time |-> None, last_status |-> "unknown",
                 last_message |-> <<"not_checked">>, history |-> << >>,
                 status_result |-> None, response_time |-> 0, result |-> None]
    /\ UNCHANGED <<vars, version_manager, error_tracker, ip_request, forwarded,
                    wrapper, now, alerter, health_monitor, adapter>>

\* The except block of check(): state, one history entry (not trimmed), result.
check_except(c, at, response_time) ==
    [c EXCEPT !.last_check_time = at,
              !.last_status = "critical",
              !.last_message = <<"check_exception">>,
              !.history = Append(@, [timestamp |-> at, status |-> "critical",
                                     message |-> <<"check_exception">>,
                                     response_time |-> response_time]),
              !.result = [success |-> FALSE, status |-> "critical",
                          message |-> <<"check_exception">>]]

\* MiddlewareHealthCheck.check(), one evaluation; the clock moves by one.
\*  - get_status() raises: the except block.
\*  - otherwise the try block records state and history and trims the history;
\*    its return statement reads status_info, which is bound only where
\*    get_status() reported success: where it did not, the UnboundLocalError
\*    lands in the except block after the try block has recorded its entry.
check_evaluation(status_result, response_time) ==
    /\ check # None
    /\ now' = now + 1
    /\ LET at == now + 1
           asked == [check EXCEPT !.status_result = status_result,
                                  !.response_time = response_time]
           found == Assessment(status_result, response_time)
           recorded ==
               [asked EXCEPT !.last_check_time = at,
                             !.last_status = found.status,
                             !.last_message = found.message,
                             !.history = Trimmed(Append(@,
                                 [timestamp |-> at, status |-> found.status,
                                  message |-> found.message,
                                  response_time |-> response_time]))]
       IN check' =
            IF status_result = Raises THEN check_except(asked, at, response_time)
            ELSE IF ~Get(status_result, "success", FALSE)
                 THEN check_except(recorded, at, response_time)
            ELSE [recorded EXCEPT !.result = [success |-> TRUE, status |-> found.status,
                                              message |-> found.message]]

\* check() called on its own: nothing but the check and the clock changes.
MiddlewareHealthCheck_check(status_result, response_time) ==
    /\ check_evaluation(status_result, response_time)
    /\ UNCHANGED <<vars, version_manager, error_tracker, ip_request, forwarded,
                    wrapper, alerter, health_monitor, adapter>>

\* Evaluations of one check object in the classification runs.
MaxChecks == 1

\* The monitored instance is a durable Redis row.
HealthInit == RestInit

HealthNext ==
    \/ MiddlewareHealthCheck_init
    \/ \E status_result \in StatusResults, response_time \in ResponseTimes :
          now < MaxChecks /\ MiddlewareHealthCheck_check(status_result, response_time)

HealthSpec == HealthInit /\ [][HealthNext]_<<check, now>>

\* ---- C15 ----
\* The figures the claim speaks of, for the last answer of the adapter: the
\* usage percentages that can be measured, and the response time.
Reported == check.status_result.status

Measured ==
    (IF "used_memory_human" \in DOMAIN Reported /\ "maxmemory_human" \in DOMAIN Reported
        /\ _parse_memory_usage(Reported.maxmemory_human) > 0
     THEN {<<_parse_memory_usage(Reported.used_memory_human),
             _parse_memory_usage(Reported.maxmemory_human)>>} ELSE {})
    \cup (IF "cpu_usage" \in DOMAIN Reported THEN {<<Reported.cpu_usage, 100>>} ELSE {})
    \cup (IF "connected_clients" \in DOMAIN Reported /\ "maxclients" \in DOMAIN Reported
           /\ Reported.maxclients > 0
         THEN {<<Reported.connected_clients, Reported.maxclients>>} ELSE {})

CriticalBreach ==
    \/ \E u \in Measured : u[1] * 100 >= 90 * u[2]
    \/ check.response_time >= 30

WarningBreach ==
    \/ \E u \in Measured : u[1] * 100 >= 70 * u[2]
    \/ check.response_time >= 10

Evaluated == check # None /\ check.result # None

\* C15: an evaluation yields critical when status retrieval raises or fails, and
\* critical when the reported status is not running; otherwise healthy iff there
\* is no breach, critical iff there is a breach at critical level (a usage of
\* 90 % or more, a response time of 3.0 s or more), and warning iff there is a
\* breach and none at critical level (70 %, 1.0 s).
C15_Classification ==
    Evaluated =>
      /\ check.result.status = check.last_status
      /\ IF check.status_result = Raises \/ ~Get(check.status_result, "success", FALSE)
         THEN check.last_status = "critical"
         ELSE IF Reported.status # "running"
         THEN check.last_status = "critical"
         ELSE /\ check.last_status \in {"healthy", "warning", "critical"}
              /\ check.last_status = "healthy" <=> ~WarningBreach
              /\ check.last_status = "critical" <=> CriticalBreach
              /\ check.last_status = "warning" <=> (WarningBreach /\ ~CriticalBreach)

C15_Witness ==
    /\ Evaluated /\ check.last_status = "critical"
    /\ Get(check.status_result, "success", FALSE)
    /\ Reported.status = "running"
    /\ check.response_time = 5
    /\ has_critical(check.last_message)
    /\ \E i \in DOMAIN check.last_message : check.last_message[i].level = "warning"

\* ---- the history of one check over many evaluations ----

\* Evaluations of one check object in the history runs.
MaxEvaluations == 102

\* The adapter of these runs: it reports a healthy instance until it goes down,
\* and from then on every get_status() fails the same way.
HealthyResult == [success |-> TRUE, status |-> [status |-> "running"]]

HistoryInit == RestInit

HistoryNext ==
    \/ MiddlewareHealthCheck_init
    \/ /\ now < MaxEvaluations
       /\ check # None /\ check.last_status # "critical"
       /\ MiddlewareHealthCheck_check(HealthyResult, 5)
    \/ \E status_result \in {Raises, [success |-> FALSE, error |-> "unreachable"]} :
          /\ now < MaxEvaluations
          /\ check # None
          /\ check.last_status = "critical" => status_result = check.status_result
          /\ MiddlewareHealthCheck_check(status_result, 5)

HistorySpec == HistoryInit /\ [][HistoryNext]_<<check, now>>

\* ---- C16 ----
\* C16: every evaluation, one in which the adapter raises included, appends
\* exactly one history entry, and the history never holds more than 100 entries,
\* the retained ones being the most recent. (Stated as the claim has it; the
\* except block of check() violates it.)
C16_OneEntryPerEvaluationAtMost100 ==
    check # None =>
      /\ Len(check.history) <= 100
      /\ Len(check.history) = (IF now < 100 THEN now ELSE 100)
      /\ \A i \in DOMAIN check.history :
            check.history[i].timestamp = now - Len(check.history) + i

\* The bound alone: violated once the adapter raises with 100 entries stored.
C16_HistoryBeyond100 == check # None => Len(check.history) <= 100

\* ======================= alerters ============================================

\* AlertBase.cooldown_period, seconds.
cooldown_period == 300

AlertLevels == {"info", "warning", "critical"}

\* Names of the checks whose results reach the alerter.
CheckNames == {"redis-main", "mysql-main"}

\* Seconds between two results reaching the alerter: around the cooldown.
Elapsed == {1, cooldown_period - 1, cooldown_period}

\* Results handed to one alerter in a run.
MaxResults == 3

\* should_alert: the level of a result.
LevelOf(status) ==
    IF status = "warning" THEN "warning"
    ELSE IF status = "critical" THEN "critical"
    ELSE "info"

\* should_alert: the two tests against min_level.
BelowMinLevel_never(level, min_level) == FALSE

BelowMinLevel(level, min_level) ==
    \/ level = "info" /\ min_level # "info"
    \/ level = "warning" /\ min_level = "critical"

\* should_alert: "(now - last_time).total_seconds() < self.cooldown_period"
InCooldown_inclusive(seconds) == seconds <= cooldown_period

InCooldown(seconds) == seconds < cooldown_period

\* AlertBase.__init__(name, min_level): no alert sent yet. `seen` is what an
\* observer of the alerter records: every result handed to alert(), when, and
\* whether _send_alert was called for it.
AlertBase_init(min_level) ==
    /\ alerter = None
    /\ alerter' = [min_level |-> min_level, last_alert_time |-> << >>, seen |-> << >>]
    /\ UNCHANGED <<vars, version_manager, error_tracker, ip_request, forwarded,
                    wrapper, check, now, health_monitor, adapter>>

\* A should_alert that would restart the cooldown at every result it sees,
\* suppressed or not.
should_alert_moving(a, check_name, status, at) ==
    [answer |-> /\ ~BelowMinLevel(LevelOf(status), a.min_level)
                /\ ~(/\ check_name \in DOMAIN a.last_alert_time
                     /\ InCooldown(at - a.last_alert_time[check_name])),
     last_alert_time |-> DictUpdate(a.last_alert_time, [n \in {check_name} |-> at])]

\* should_alert(check, result) at time `at`: the answer and the last_alert_time
\* it leaves.
should_alert(a, check_name, status, at) ==
    IF BelowMinLevel(LevelOf(status), a.min_level)
    THEN [answer |-> FALSE, last_alert_time |-> a.last_alert_time]
    ELSE IF check_name \in DOMAIN a.last_alert_time
            /\ InCooldown(at - a.last_alert_time[check_name])
    THEN [answer |-> FALSE, last_alert_time |-> a.last_alert_time]
    ELSE [answer |-> TRUE,
          last_alert_time |-> DictUpdate(a.last_alert_time, [n \in {check_name} |-> at])]

\* alert(check, result), `seconds` after the previous result: _send_alert is
\* called iff should_alert answers True.
AlertBase_alert(check_name, status, seconds) ==
    /\ alerter # None
    /\ now' = now + seconds
    /\ LET decided == should_alert(alerter, check_name, status, now + seconds)
       IN alerter' = [alerter EXCEPT
                        !.last_alert_time = decided.last_alert_time,
                        !.seen = Append(@, [check |-> check_name, status |-> status,
                                            at |-> now + seconds, sent |-> decided.answer])]
    /\ UNCHANGED <<vars, version_manager, error_tracker, ip_request, forwarded,
                    wrapper, check, health_monitor, adapter>>

AlertInit == RestInit

AlertNext ==
    \/ \E min_level \in AlertLevels : AlertBase_init(min_level)
    \/ \E check_name \in CheckNames, status \in {"healthy", "warning", "critical"},
          seconds \in Elapsed :
          /\ alerter # None /\ Len(alerter.seen) < MaxResults
          /\ AlertBase_alert(check_name, status, seconds)

AlertSpec == AlertInit /\ [][AlertNext]_<<alerter, now>>

\* ---- C17 ----
\* The results of one check, in order of arrival.
ResultsOf(check_name) == {i \in DOMAIN alerter.seen : alerter.seen[i].check = check_name}

\* Alert-worthy: at or above the min_level of the alerter.
Rank(level) == IF level = "critical" THEN 2 ELSE IF level = "warning" THEN 1 ELSE 0

Worthy(i) == Rank(LevelOf(alerter.seen[i].status)) >= Rank(alerter.min_level)

\* Result i arrives while an alert dispatched for its check is less than 300 s old.
InsideCooldown(i) ==
    \E j \in ResultsOf(alerter.seen[i].check) :
        j < i /\ alerter.seen[j].sent /\ alerter.seen[i].at - alerter.seen[j].at < 300

\* C17: for one alerter and one check, of two alert-worthy results less than
\* 300 s apart, the first of which arrives outside the cooldown, exactly one is
\* dispatched (the first); no two alerts are dispatched less than 300 s apart;
\* and an alert-worthy result arriving once 300 s or more have passed since the
\* last dispatched alert is dispatched.
C17_OneAlertPerCooldown ==
    alerter # None =>
      \A n \in CheckNames : \A i \in ResultsOf(n) :
        /\ \A j \in ResultsOf(n) :
              (i < j /\ Worthy(i) /\ Worthy(j) /\ ~InsideCooldown(i)
                 /\ alerter.seen[j].at - alerter.seen[i].at < 300)
                => alerter.seen[i].sent /\ ~alerter.seen[j].sent
        /\ \A j \in ResultsOf(n) :
              (i < j /\ alerter.seen[i].sent /\ alerter.seen[j].sent)
                => alerter.seen[j].at - alerter.seen[i].at >= 300
        /\ (Worthy(i) /\ ~InsideCooldown(i)) => alerter.seen[i].sent

C17_Witness ==
    /\ alerter # None /\ Len(alerter.seen) = 3
    /\ \A i \in 1..3 : alerter.seen[i].check = "redis-main" /\ alerter.seen[i].status = "critical"
    /\ alerter.seen[2].at - alerter.seen[1].at = 299
    /\ alerter.seen[3].at - alerter.seen[1].at = 300
    /\ alerter.seen[1].sent /\ ~alerter.seen[2].sent /\ alerter.seen[3].sent

\* ---- C18 ----
\* C18: the alerter never dispatches a result below its min_level; every result
\* at or above min_level that is outside the cooldown window is dispatched, and
\* the cooldown clock of its check then reads the time of that result.
C18_MinLevelAndCooldownReset ==
    alerter # None =>
      /\ \A i \in DOMAIN alerter.seen :
            /\ alerter.seen[i].sent => Worthy(i)
            /\ (Worthy(i) /\ ~InsideCooldown(i)) => alerter.seen[i].sent
      /\ \A n \in CheckNames :
            LET dispatched == {i \in ResultsOf(n) : alerter.seen[i].sent}
            IN IF dispatched = {} THEN n \notin DOMAIN alerter.last_alert_time
               ELSE /\ n \in DOMAIN alerter.last_alert_time
                    /\ \E i \in dispatched :
                          /\ \A j \in dispatched : j <= i
                          /\ alerter.last_alert_time[n] = alerter.seen[i].at

C18_Witness ==
    /\ alerter # None /\ alerter.min_level = "critical" /\ Len(alerter.seen) = 3
    /\ alerter.seen[1].status = "warning" /\ ~alerter.seen[1].sent
    /\ alerter.seen[2].status = "critical" /\ alerter.seen[2].sent
    /\ alerter.seen[3].check = alerter.seen[2].check
    /\ alerter.seen[3].status = "critical" /\ alerter.seen[3].sent
    /\ alerter.last_alert_time[alerter.seen[3].check] = alerter.seen[3].at

\* ======================= the health monitor ==================================

\* Threads that start() can create in a run, and evaluations they can make.
MaxThreads == 2

MaxMonitorChecks == 2

Threads == 1..MaxThreads

\* threading.Lock: free, or held by a thread.
Free == 0

\* Lock.acquire() can return.
Acquirable_always(lock) == TRUE

Acquirable(lock) == lock = Free

\* HealthMonitor(): not running, no thread, the lock free, no alerters. `pc` is
\* the position of every thread that start() may create in _monitor_loop.
HealthMonitor_init ==
    /\ health_monitor = None
    /\ health_monitor' = [running |-> FALSE, monitor_thread |-> Free, check_lock |-> Free,
                          pc |-> [t \in Threads |-> "unborn"]]
    /\ UNCHANGED <<vars, version_manager, error_tracker, ip_request, forwarded,
                    wrapper, check, now, alerter, adapter>>

\* register_middleware_health_check: the one check of the monitor.
register_middleware_health_check ==
    /\ health_monitor # None
    /\ MiddlewareHealthCheck_init

At(t, pc) == health_monitor # None /\ health_monitor.pc[t] = pc

Goto(t, pc) == [health_monitor EXCEPT !.pc[t] = pc]

monitor_frame ==
    <<vars, version_manager, error_tracker, ip_request, forwarded,
      wrapper, check, now, alerter, adapter>>

\* start(): returns at once while running; else sets running and starts a thread.
HealthMonitor_start(t) ==
    /\ At(t, "unborn") /\ ~health_monitor.running
    /\ health_monitor' = [health_monitor EXCEPT !.running = TRUE, !.monitor_thread = t,
                                                !.pc[t] = "while"]
    /\ UNCHANGED monitor_frame

\* stop(): clears running, joins the thread for at most five seconds and forgets
\* it, whether or not it ended.
HealthMonitor_stop ==
    /\ health_monitor # None /\ health_monitor.running
    /\ health_monitor' = [health_monitor EXCEPT !.running = FALSE, !.monitor_thread = Free]
    /\ UNCHANGED monitor_frame

\* _monitor_loop, "while self.running:"
loop_while(t) ==
    /\ At(t, "while")
    /\ health_monitor' = Goto(t, IF health_monitor.running THEN "for" ELSE "dead")
    /\ UNCHANGED monitor_frame

\* "for ... in self.checks: if not check.last_check_time or ... >= interval":
\* tested before the lock is taken; no check registered, or none due: sleep.
loop_due(t, due) ==
    /\ At(t, "for")
    /\ health_monitor' = Goto(t, IF check # None /\ due /\ now < MaxMonitorChecks
                                 THEN "acquire" ELSE "sleep")
    /\ UNCHANGED monitor_frame

\* "with self.check_lock:" entered
loop_acquire(t) ==
    /\ At(t, "acquire") /\ Acquirable(health_monitor.check_lock)
    /\ health_monitor' = [health_monitor EXCEPT !.check_lock = t, !.pc[t] = "locked"]
    /\ UNCHANGED monitor_frame

\* "result = check.check()" called
loop_check_call(t) ==
    /\ At(t, "locked")
    /\ health_monitor' = Goto(t, "in_check")
    /\ UNCHANGED monitor_frame

\* check.check() returns; a warning or critical result goes to _trigger_alert,
\* which has no alerter to call.
loop_check_return(t, status_result) ==
    /\ At(t, "in_check")
    /\ check_evaluation(status_result, 5)
    /\ health_monitor' = Goto(t, IF check'.result.status \in {"warning", "critical"}
                                 THEN "alert" ELSE "release")
    /\ UNCHANGED <<vars, version_manager, error_tracker, ip_request, forwarded,
                    wrapper, alerter, adapter>>

loop_trigger_alert(t) ==
    /\ At(t, "alert")
    /\ health_monitor' = Goto(t, "release")
    /\ UNCHANGED monitor_frame

\* the with block left
loop_release(t) ==
    /\ At(t, "release")
    /\ health_monitor' = [health_monitor EXCEPT !.check_lock = Free, !.pc[t] = "sleep"]
    /\ UNCHANGED monitor_frame

\* time.sleep(1)
loop_sleep(t) ==
    /\ At(t, "sleep")
    /\ health_monitor' = Goto(t, "while")
    /\ UNCHANGED monitor_frame

MonitorInit == RestInit

MonitorNext ==
    \/ HealthMonitor_init
    \/ register_middleware_health_check
    \/ \E t \in Threads : HealthMonitor_start(t)
    \/ HealthMonitor_stop
    \/ \E t \in Threads : loop_while(t)
    \/ \E t \in Threads, due \in BOOLEAN : loop_due(t, due)
    \/ \E t \in Threads : loop_acquire(t)
    \/ \E t \in Threads : loop_check_call(t)
    \/ \E t \in Threads, status_result \in {HealthyResult, Raises} :
          loop_check_return(t, status_result)
    \/ \E t \in Threads : loop_trigger_alert(t)
    \/ \E t \in Threads : loop_release(t)
    \/ \E t \in Threads : loop_sleep(t)

MonitorSpec == MonitorInit /\ [][MonitorNext]_<<health_monitor, check, now>>

\* ---- C19 ----
\* The threads inside check.check().
Evaluating == {t \in Threads : health_monitor.pc[t] = "in_check"}

\* C19: a monitor thread is inside check.check() only while it holds the lock of
\* the monitor, and no two threads are inside it at once.
C19_EvaluationsDoNotOverlap ==
    health_monitor # None =>
      /\ \A t \in Evaluating : health_monitor.check_lock = t
      /\ Cardinality(Evaluating) <= 1

\* Two monitor threads are alive; one evaluates, the other waits for the lock.
C19_Witness ==
    /\ health_monitor # None
    /\ \E t, u \in Threads :
          /\ t # u
          /\ health_monitor.pc[t] = "in_check"
          /\ health_monitor.pc[u] = "acquire"

\* ======================= adapters: upgrade ===================================

\* The adapters with an upgrade of their own.
AdapterTypes == {"redis", "mysql"}

\* "backup_path = None": no backup to restore from ("if backup_path:" is false).
NoBackup == ""

\* The path backup() reports in the given attempt.
BackupPath(attempt) == IF attempt = 0 THEN "backup-1" ELSE IF attempt = 1 THEN "backup-2" ELSE "backup-3"

\* The adapter of a running instance, no call in progress. `log` is what an
\* observer of the instance records during a call of upgrade().
adapter_init(type) ==
    /\ adapter = None
    /\ adapter' = [type |-> type, status |-> "running", version |-> "6.2.6", pc |-> "idle",
                   backup |-> FALSE, attempt |-> 0, backup_path |-> NoBackup,
                   e |-> None, outcome |-> "none", log |-> << >>]
    /\ UNCHANGED <<vars, version_manager, error_tracker, ip_request, forwarded,
                    wrapper, check, now, alerter, health_monitor>>

adapter_frame ==
    <<vars, version_manager, error_tracker, ip_request, forwarded,
      wrapper, check, now, alerter, health_monitor>>

Logged(a, event) == [a EXCEPT !.log = Append(@, event)]

\* upgrade(params) is called: the wrapper of @retry(max_attempts=3, delay=2,
\* exceptions=(..., Exception)) starts with attempt = 0.
upgrade_call(backup) ==
    /\ adapter # None /\ adapter.pc = "idle"
    /\ adapter' = [adapter EXCEPT !.pc = "body", !.backup = backup, !.attempt = 0]
    /\ UNCHANGED adapter_frame

\* The body of upgrade begins: status 'updating', saved; backup_path = None.
upgrade_begin ==
    /\ adapter # None /\ adapter.pc = "body"
    /\ adapter' = [Logged(adapter, "updating") EXCEPT
                      !.status = "updating", !.backup_path = NoBackup,
                      !.pc = IF adapter.backup THEN "backup" ELSE "try"]
    /\ UNCHANGED adapter_frame

\* "backup_result = self.backup(); backup_path = backup_result.get('backup_path')",
\* before the try block. A failing backup returns {"success": False} from the
\* Redis adapter (no backup_path) and raises from the MySQL adapter, out of the
\* body of upgrade.
upgrade_backup(taken) ==
    /\ adapter # None /\ adapter.pc = "backup"
    /\ adapter' =
         IF taken
         THEN [Logged(adapter, "backup_taken") EXCEPT
                 !.backup_path = BackupPath(adapter.attempt), !.pc = "try"]
         ELSE IF adapter.type = "redis"
         THEN [Logged(adapter, "backup_failed") EXCEPT !.pc = "try"]
         ELSE [Logged(adapter, "backup_failed") EXCEPT
                 !.e = [failure |-> "backup", attempt |-> adapter.attempt],
                 !.pc = "caught"]
    /\ UNCHANGED adapter_frame

\* The try block: the image swap or package upgrade and the readiness check
\* succeed (version and status 'running' saved, success returned) or raise.
upgrade_try(ok) ==
    /\ adapter # None /\ adapter.pc = "try"
    /\ adapter' =
         IF ok
         THEN [Logged(adapter, "upgraded") EXCEPT
                 !.version = "7.0.0", !.status = "running",
                 !.pc = "done", !.outcome = "returned"]
         ELSE [Logged(adapter, IF adapter.backup_path # NoBackup
                               THEN "upgrade_failed_after_backup" ELSE "upgrade_failed")
               EXCEPT !.e = [failure |-> "upgrade", attempt |-> adapter.attempt],
                      !.pc = IF adapter.backup_path # NoBackup THEN "restore" ELSE "mark_error"]
    /\ UNCHANGED adapter_frame

\* "if backup_path: try: self.restore(backup_path) except Exception: log".
\* restore leaves status 'running', or 'error' where it fails (the Redis adapter
\* then returns {"success": False}, the MySQL adapter raises and upgrade logs it).
upgrade_restore(restored) ==
    /\ adapter # None /\ adapter.pc = "restore"
    /\ adapter' = [Logged(Logged(adapter, "restore_attempted"),
                          IF restored THEN "restored" ELSE "restore_failed")
                   EXCEPT !.status = IF restored THEN "running" ELSE "error",
                          !.pc = "mark_error"]
    /\ UNCHANGED adapter_frame

\* "self.middleware.status = 'error'; save()" and the raise that ends the body:
\* Exception("升级Redis中间件失败: " + str(e)) or, in the MySQL adapter, e itself.
upgrade_mark_error ==
    /\ adapter # None /\ adapter.pc = "mark_error"
    /\ adapter' = [Logged(adapter, "status_error") EXCEPT !.status = "error", !.pc = "caught"]
    /\ UNCHANGED adapter_frame

\* The wrapper of @retry catches what the body raised: it re-raises on the last
\* attempt, and otherwise sleeps and calls the body again.
upgrade_retry ==
    /\ adapter # None /\ adapter.pc = "caught"
    /\ adapter' =
         IF Exhausted(adapter.attempt + 1)
         THEN [adapter EXCEPT !.attempt = @ + 1, !.pc = "done", !.outcome = "raised"]
         ELSE [Logged(adapter, "retry") EXCEPT !.attempt = @ + 1, !.pc = "body"]
    /\ UNCHANGED adapter_frame

UpgradeInit == RestInit

UpgradeNext ==
    \/ \E type \in AdapterTypes : adapter_init(type)
    \/ \E backup \in BOOLEAN : upgrade_call(backup)
    \/ upgrade_begin
    \/ \E taken \in BOOLEAN : upgrade_backup(taken)
    \/ \E ok \in BOOLEAN : upgrade_try(ok)
    \/ \E restored \in BOOLEAN : upgrade_restore(restored)
    \/ upgrade_mark_error
    \/ upgrade_retry

UpgradeSpec == UpgradeInit /\ [][UpgradeNext]_adapter

\* ---- C20 ----
\* The upgrade failed after a backup was taken: the events at which it did.
FailedAfterBackup ==
    {i \in DOMAIN adapter.log : adapter.log[i] = "upgrade_failed_after_backup"}

\* The attempts (from 0) in which the events of the log happened.
AttemptOf(i) == Cardinality({j \in 1..i : adapter.log[j] = "retry"})

\* C20: when an upgrade fails after a backup was taken, the restore is attempted
\* next, before the status is set to error; and the call ends with status error
\* and raises an error carrying the original upgrade failure. (Stated as the
\* claim has it; the @retry wrapper around upgrade violates it.)
C20_RestoreThenErrorThenRaise ==
    adapter # None =>
      /\ \A i \in FailedAfterBackup :
            /\ i + 1 \in DOMAIN adapter.log => adapter.log[i + 1] = "restore_attempted"
            /\ \A j \in DOMAIN adapter.log :
                  (j > i /\ adapter.log[j] = "status_error" /\ AttemptOf(j) = AttemptOf(i))
                    => \E k \in i..j : adapter.log[k] = "restore_attempted"
      /\ (adapter.pc = "done" /\ FailedAfterBackup # {}) =>
            /\ adapter.status = "error"
            /\ adapter.outcome = "raised"
            /\ adapter.e # None
            /\ adapter.e.failure = "upgrade"
            /\ \A i \in FailedAfterBackup : AttemptOf(i) >= adapter.e.attempt

\* ======================= adapters: update_config =============================

\* config_data of the config record before the call, and the new_config values
\* a caller passes.
StoredConfig == [maxmemory |-> "256mb", timeout |-> 0]

NewConfigs == {[maxmemory |-> "512mb"], [timeout |-> 30, appendonly |-> "yes"]}

\* The dict objects of a call: config_data of the in-memory config record, and
\* the dict old_config = self.config.copy() creates in each pass of the body.
CopyOf(attempt) == IF attempt = 0 THEN "copy-1" ELSE IF attempt = 1 THEN "copy-2" ELSE "copy-3"

\* MiddlewareAdapter.__init__: self.config = self._get_config(), which returns
\* the dict object middleware.config.config_data itself, or a new empty dict
\* where the instance has no config record. `dicts` holds the dict objects by
\* name, `config` names the one self.config refers to, `saved` is config_data
\* of the row in the database.
adapter_config_init(type, has_record) ==
    /\ adapter = None
    /\ adapter' = [type |-> type, status |-> "running", pc |-> "idle",
                   has_record |-> has_record,
                   config |-> IF has_record THEN "config_data" ELSE "own",
                   dicts |-> IF has_record
                             THEN [n \in {"config_data"} |-> StoredConfig]
                             ELSE [n \in {"own"} |-> << >>],
                   saved |-> IF has_record THEN StoredConfig ELSE << >>,
                   new_config |-> << >>, attempt |-> 0, e |-> "none", outcome |-> "none",
                   before |-> << >>]
    /\ UNCHANGED adapter_frame

\* update_config(new_config) is called: the wrapper of @retry starts with
\* attempt = 0. `before` keeps the configuration as it is at the call.
update_config_call(new_config) ==
    /\ adapter # None /\ "dicts" \in DOMAIN adapter /\ adapter.pc = "idle"
    /\ adapter' = [adapter EXCEPT !.pc = "validate", !.new_config = new_config,
                                  !.attempt = 0, !.before = adapter.dicts[adapter.config]]
    /\ UNCHANGED adapter_frame

\* "is_valid, error_message = self.validate_config(new_config)": ValueError where
\* it is not valid; else "old_config = self.config.copy()".
update_config_validate(is_valid) ==
    /\ adapter # None /\ "dicts" \in DOMAIN adapter /\ adapter.pc = "validate"
    /\ adapter' =
         IF ~is_valid THEN [adapter EXCEPT !.e = "invalid", !.pc = "caught"]
         ELSE [adapter EXCEPT
                 !.dicts = [n \in DOMAIN @ \cup {CopyOf(adapter.attempt)} |->
                              IF n = CopyOf(adapter.attempt) THEN @[adapter.config] ELSE @[n]],
                 !.pc = "apply"]
    /\ UNCHANGED adapter_frame

\* The try block. "self.config.update(new_config)" changes the dict object
\* self.config refers to; the CONFIG SET / SET GLOBAL commands succeed or raise.
\*  - success: config_data.update(new_config) and config.save() (which raise
\*    where there is no config record), then success is returned.
\*  - failure: "self.config = old_config", status 'error' saved, Exception raised.
update_config_apply(ok) ==
    /\ adapter # None /\ "dicts" \in DOMAIN adapter /\ adapter.pc = "apply"
    /\ LET updated == [adapter EXCEPT
                         !.dicts[adapter.config] = DictUpdate(@, adapter.new_config)]
       IN adapter' =
            IF ok /\ adapter.has_record
            THEN [updated EXCEPT
                    !.dicts["config_data"] = DictUpdate(@, adapter.new_config),
                    !.saved = DictUpdate(updated.dicts["config_data"], adapter.new_config),
                    !.pc = "done", !.outcome = "returned"]
            ELSE [updated EXCEPT !.config = CopyOf(adapter.attempt), !.status = "error",
                                 !.e = "apply_failed", !.pc = "caught"]
    /\ UNCHANGED adapter_frame

\* The wrapper of @retry catches what the body raised (ValueError too).
update_config_retry ==
    /\ adapter # None /\ "dicts" \in DOMAIN adapter /\ adapter.pc = "caught"
    /\ adapter' =
         IF Exhausted(adapter.attempt + 1)
         THEN [adapter EXCEPT !.attempt = @ + 1, !.pc = "done", !.outcome = "raised"]
         ELSE [adapter EXCEPT !.attempt = @ + 1, !.pc = "validate"]
    /\ UNCHANGED adapter_frame

ConfigUpdateInit == RestInit

ConfigUpdateNext ==
    \/ \E type \in AdapterTypes, has_record \in BOOLEAN : adapter_config_init(type, has_record)
    \/ \E new_config \in NewConfigs : update_config_call(new_config)
    \/ \E is_valid \in BOOLEAN : update_config_validate(is_valid)
    \/ \E ok \in BOOLEAN : update_config_apply(ok)
    \/ update_config_retry

ConfigUpdateSpec == ConfigUpdateInit /\ [][ConfigUpdateNext]_adapter

\* ---- C21 ----
\* The call has ended in the failure of applying a validated configuration.
ApplyFailed ==
    /\ adapter # None /\ "dicts" \in DOMAIN adapter
    /\ adapter.pc = "done" /\ adapter.outcome = "raised" /\ adapter.e = "apply_failed"

\* C21: when applying a validated configuration fails, at the end of the call
\* the configuration of the adapter and config_data of the config record it was
\* read from equal their value before the call, the stored config record has
\* not been saved with the new keys, and the status is error. (Stated as the
\* claim has it; config_data keeps the new keys.)
C21_FailedUpdateLeavesConfig ==
    ApplyFailed =>
      /\ adapter.dicts[adapter.config] = adapter.before
      /\ adapter.has_record => adapter.dicts["config_data"] = adapter.before
      /\ adapter.has_record => adapter.saved = StoredConfig
      /\ adapter.status = "error"

\* ======================= adapters: start and stop ============================

\* The adapter of an instance with the given status, no call in progress.
\* `before` keeps the status at the call.
adapter_service_init(type, status) ==
    /\ adapter = None
    /\ adapter' = [type |-> type, status |-> status, pc |-> "idle", op |-> "none",
                   attempt |-> 0, outcome |-> "none", before |-> status]
    /\ UNCHANGED adapter_frame

InService == adapter # None /\ "op" \in DOMAIN adapter

\* start() or stop() is called: the wrapper of @retry starts with attempt = 0.
adapter_call(op) ==
    /\ InService /\ adapter.pc = "idle"
    /\ adapter' = [adapter EXCEPT !.op = op, !.pc = "command", !.attempt = 0,
                                  !.before = adapter.status]
    /\ UNCHANGED adapter_frame

\* The docker / systemctl command of the body: returns, or raises
\* CalledProcessError out of the body.
adapter_command(ok) ==
    /\ InService /\ adapter.pc = "command"
    /\ adapter' = [adapter EXCEPT !.pc = IF ~ok THEN "caught"
                                         ELSE IF adapter.op = "start" THEN "verify"
                                         ELSE "save"]
    /\ UNCHANGED adapter_frame

\* start: the readiness check (client.info(), or the connection poll and
\* SELECT VERSION()) returns, or raises out of the body.
adapter_verify(ok) ==
    /\ InService /\ adapter.pc = "verify"
    /\ adapter' = [adapter EXCEPT !.pc = IF ok THEN "save" ELSE "caught"]
    /\ UNCHANGED adapter_frame

\* "self.middleware.status = 'running' / 'stopped'; save(); return"
adapter_save_status ==
    /\ InService /\ adapter.pc = "save"
    /\ adapter' = [adapter EXCEPT
                     !.status = IF adapter.op = "start" THEN "running" ELSE "stopped",
                     !.pc = "done", !.outcome = "returned"]
    /\ UNCHANGED adapter_frame

\* The wrapper of @retry catches what the body raised; neither body has an
\* except block of its own.
adapter_retry ==
    /\ InService /\ adapter.pc = "caught"
    /\ adapter' =
         IF Exhausted(adapter.attempt + 1)
         THEN [adapter EXCEPT !.attempt = @ + 1, !.pc = "done", !.outcome = "raised"]
         ELSE [adapter EXCEPT !.attempt = @ + 1, !.pc = "command"]
    /\ UNCHANGED adapter_frame

\* A finished call returns to its caller.
adapter_return ==
    /\ InService /\ adapter.pc = "done"
    /\ adapter' = [adapter EXCEPT !.pc = "idle", !.op = "none", !.outcome = "none",
                                  !.attempt = 0, !.before = adapter.status]
    /\ UNCHANGED adapter_frame

ServiceInit == RestInit

ServiceNext ==
    \/ \E type \in AdapterTypes, status \in STATUS_CHOICES : adapter_service_init(type, status)
    \/ \E op \in {"start", "stop"} : adapter_call(op)
    \/ \E ok \in BOOLEAN : adapter_command(ok)
    \/ \E ok \in BOOLEAN : adapter_verify(ok)
    \/ adapter_save_status
    \/ adapter_retry
    \/ adapter_return

ServiceSpec == ServiceInit /\ [][ServiceNext]_adapter

\* ---- C22 ----
\* C22: start and stop write the status (running, stopped) only as the last
\* step, after the external command and the readiness check have succeeded;
\* and when the external action fails on the final attempt the status is set to
\* error. (Stated as the claim has it; no failure path writes the status.)
C22_StatusLastOrError ==
    InService =>
      /\ adapter.outcome = "none" => adapter.status = adapter.before
      /\ adapter.outcome = "returned" =>
            adapter.status = (IF adapter.op = "start" THEN "running" ELSE "stopped")
      /\ adapter.outcome = "raised" => adapter.status = "error"

\* ---- C23 ----
\* The passes of the body of upgrade in the call so far: each begins by setting
\* the status to updating.
Passes == {i \in DOMAIN adapter.log : adapter.log[i] = "updating"}

\* C23: within one call of upgrade the sequence set-updating, backup, swap and,
\* on failure, restore and mark-error runs at most once: a failure of the upgrade
\* does not run it again. (Stated as the claim has it; the @retry wrapper around
\* upgrade runs the whole body again.)
C23_UpgradeSequenceRunsOnce ==
    (adapter # None /\ "log" \in DOMAIN adapter) =>
      /\ Cardinality(Passes) <= 1
      /\ Cardinality({i \in DOMAIN adapter.log : adapter.log[i] = "restore_attempted"}) <= 1
      /\ Cardinality({i \in DOMAIN adapter.log : adapter.log[i] = "status_error"}) <= 1

\* ======================= config validator and version manager ===============

\* Seconds of wall clock in a run, and saves of a version in a run.
MaxSeconds == 2

MaxSaves == 3

MiddlewareIds == {"mw-1", "mw-2"}

\* Redis configurations: complete; port changed; password removed; no host.
\* The values are JSON-native, so json.dump / json.load give them back as saved.
RedisFull == [host |-> "10.0.0.5", port |-> 6379, password |-> "s3cret-pw"]

RedisPortChanged == [host |-> "10.0.0.5", port |-> 6380, password |-> "s3cret-pw"]

RedisNoPassword == [host |-> "10.0.0.5", port |-> 6379]

RedisNoHost == [port |-> 6379]

Configs == {RedisFull, RedisPortChanged, RedisNoPassword, RedisNoHost, << >>}

\* ConfigValidator.validate_config: the type has a model and the model accepts
\* the configuration (RedisConfig: host is the one required field).
validate_config(middleware_type, config) ==
    IF middleware_type \notin MIDDLEWARE_TYPES THEN FALSE
    ELSE IF middleware_type = "redis" THEN "host" \in DOMAIN config
    ELSE TRUE

\* A variant of the test below that does not look at the values.
IsModified_present(old_config, new_config, key) ==
    key \in DOMAIN old_config /\ key \in DOMAIN new_config

\* compare_configs: key in old_config and key in new_config and
\* old_config[key] != new_config[key]
IsModified(old_config, new_config, key) ==
    /\ key \in DOMAIN old_config
    /\ key \in DOMAIN new_config
    /\ old_config[key] # new_config[key]

\* compare_configs(old_config, new_config)
compare_configs(old_config, new_config) ==
    LET all_keys == DOMAIN old_config \cup DOMAIN new_config
        added == [k \in {k \in all_keys : k \in DOMAIN new_config /\ k \notin DOMAIN old_config}
                    |-> new_config[k]]
        removed == [k \in {k \in all_keys : k \in DOMAIN old_config /\ k \notin DOMAIN new_config}
                      |-> old_config[k]]
        modified == [k \in {k \in all_keys : IsModified(old_config, new_config, k)}
                       |-> [old |-> old_config[k], new |-> new_config[k]]]
    IN [added |-> added, removed |-> removed, modified |-> modified,
        unchanged |-> Cardinality(all_keys) - Cardinality(DOMAIN added)
                      - Cardinality(DOMAIN removed) - Cardinality(DOMAIN modified)]

\* sensitive_configs['redis']
RedisSensitiveKeys == {"port", "password", "data_dir"}

\* The file of a version: history_dir/<middleware_id>/config_<version_id>.json,
\* where version_id is datetime.now() to the second.
VersionFile(middleware_id, version_id) == <<middleware_id, version_id>>

\* ConfigValidator(): its ConfigVersionManager over an empty history directory.
\* `saves` counts the calls of save_config_version, `result` is what the last
\* call returned.
ConfigValidator_init ==
    /\ version_manager = None
    /\ version_manager' = [files |-> << >>, saves |-> 0, result |-> None]
    /\ UNCHANGED <<vars, forwarded, wrapper, check, now, alerter, health_monitor, adapter,
                   error_tracker, ip_request>>

version_frame ==
    <<vars, forwarded, wrapper, check, now, alerter, health_monitor, adapter,
      error_tracker, ip_request>>

Managing == version_manager # None /\ "files" \in DOMAIN version_manager

\* A second of wall clock passes.
clock_tick ==
    /\ Managing /\ now < MaxSeconds
    /\ now' = now + 1
    /\ UNCHANGED <<vars, forwarded, wrapper, check, alerter, health_monitor, adapter,
                   version_manager, error_tracker, ip_request>>

\* The files after save_config_version(middleware_id, config):
\* open(version_file, 'w') creates the file or replaces the one of that name.
Saved(files, middleware_id, config) ==
    LET version_file == VersionFile(middleware_id, now)
    IN [f \in DOMAIN files \cup {version_file} |->
          IF f = version_file
          THEN [version_id |-> now, middleware_id |-> middleware_id,
                timestamp |-> now, config |-> config]
          ELSE files[f]]

save_config_version(middleware_id, config) ==
    /\ Managing
    /\ version_manager' = [version_manager EXCEPT
                             !.files = Saved(@, middleware_id, config),
                             !.saves = @ + 1,
                             !.result = [version_file |-> VersionFile(middleware_id, now)]]
    /\ UNCHANGED version_frame

\* get_config_version(middleware_id, version_id): the config, or None.
get_config_version(middleware_id, version_id) ==
    IF VersionFile(middleware_id, version_id) \notin DOMAIN version_manager.files THEN None
    ELSE version_manager.files[VersionFile(middleware_id, version_id)].config

\* validate_config_change: the errors of the change impact (a removed sensitive
\* key); modified sensitive keys and decreases give warnings only.
ChangeErrors(middleware_type, diff) ==
    IF middleware_type = "redis" THEN DOMAIN diff.removed \cap RedisSensitiveKeys ELSE {}

\* validate_config_change(middleware_id, middleware_type, old_config, new_config):
\* returns the result of the basic validation where that fails; otherwise
\* saves new_config as a version and returns the result of the change impact.
validate_config_change(middleware_id, middleware_type, old_config, new_config) ==
    /\ Managing
    /\ IF ~validate_config(middleware_type, new_config)
       THEN version_manager' = [version_manager EXCEPT !.result = [is_valid |-> FALSE]]
       ELSE version_manager' =
              [version_manager EXCEPT
                 !.files = Saved(@, middleware_id, new_config),
                 !.saves = @ + 1,
                 !.result = [is_valid |->
                     ChangeErrors(middleware_type,
                                  compare_configs(old_config, new_config)) = {}]]
    /\ UNCHANGED version_frame

\* rollback_config(middleware_id, version_id): "if not config" is true for a
\* missing version and for a stored empty configuration.
rollback_config(middleware_id, version_id) ==
    /\ Managing
    /\ LET config == get_config_version(middleware_id, version_id)
       IN IF config = None \/ config = << >>
          THEN version_manager' = [version_manager EXCEPT
                                     !.result = [success |-> FALSE, error |-> "no_version"]]
          ELSE LET noted == DictUpdate(config,
                              [k \in {"_rollback_info"} |->
                                 [rollback |-> TRUE, from_version |-> version_id,
                                  timestamp |-> now]])
               IN version_manager' =
                    [version_manager EXCEPT
                       !.files = Saved(@, middleware_id, noted),
                       !.saves = @ + 1,
                       !.result = [success |-> TRUE, config |-> noted]]
    /\ UNCHANGED version_frame

VersionInit == RestInit

VersionNext ==
    \/ ConfigValidator_init
    \/ clock_tick
    \/ \E middleware_id \in MiddlewareIds, config \in {RedisFull, << >>} :
          /\ Managing /\ version_manager.saves < MaxSaves
          /\ save_config_version(middleware_id, config)
    \/ \E middleware_id \in MiddlewareIds, middleware_type \in {"redis", "kafka"},
          new_config \in {RedisPortChanged, RedisNoPassword, RedisNoHost} :
          /\ Managing /\ version_manager.saves < MaxSaves
          /\ validate_config_change(middleware_id, middleware_type, RedisFull, new_config)
    \/ \E middleware_id \in MiddlewareIds, version_id \in 0..MaxSeconds :
          /\ Managing /\ version_manager.saves < MaxSaves
          /\ rollback_config(middleware_id, version_id)

VersionSpec == VersionInit /\ [][VersionNext]_<<version_manager, now>>

\* ---- C24 ----
\* Exactly one version is added, for middleware_id, holding config; the stored
\* versions stay as they are.
StoresOneNewVersion(middleware_id, config) ==
    \E f \in DOMAIN version_manager'.files :
        /\ f \notin DOMAIN version_manager.files
        /\ DOMAIN version_manager'.files = DOMAIN version_manager.files \cup {f}
        /\ f[1] = middleware_id
        /\ version_manager'.files[f].config = config
        /\ \A g \in DOMAIN version_manager.files :
              version_manager'.files[g] = version_manager.files[g]

\* C24: every call of validate_config_change, valid or not, stores exactly one
\* new ConfigVersion for that middleware id holding the new configuration.
\* (Stated as the claim has it; a configuration failing the basic validation is
\* not stored, and a save within the second of another replaces that version.)
C24_EveryChangeStoresOneVersion ==
    [][\A middleware_id \in MiddlewareIds, middleware_type \in {"redis", "kafka"},
         new_config \in {RedisPortChanged, RedisNoPassword, RedisNoHost} :
          validate_config_change(middleware_id, middleware_type, RedisFull, new_config)
            => StoresOneNewVersion(middleware_id, new_config)]_<<version_manager, now>>

\* ---- C25 ----
\* C25: rollback_config(id, V) for an existing version V stores a new version
\* whose config is V's config plus rollback metadata naming V and leaves V as
\* it was; for a version that does not exist it reports failure and stores
\* nothing. (Stated as the claim has it; a rollback within the second V was
\* saved in replaces V.)
C25_RollbackAddsAndKeeps ==
    [][\A middleware_id \in MiddlewareIds, version_id \in 0..MaxSeconds :
          rollback_config(middleware_id, version_id) =>
            IF VersionFile(middleware_id, version_id) \in DOMAIN version_manager.files
            THEN /\ \E f \in DOMAIN version_manager'.files \ DOMAIN version_manager.files :
                      LET stored == version_manager'.files[f].config
                      IN /\ "_rollback_info" \in DOMAIN stored
                         /\ stored["_rollback_info"].from_version = version_id
                         /\ \A k \in DOMAIN get_config_version(middleware_id, version_id) :
                               k # "_rollback_info" =>
                                 /\ k \in DOMAIN stored
                                 /\ stored[k] = get_config_version(middleware_id, version_id)[k]
                 /\ VersionFile(middleware_id, version_id) \in DOMAIN version_manager'.files
                 /\ version_manager'.files[VersionFile(middleware_id, version_id)]
                      = version_manager.files[VersionFile(middleware_id, version_id)]
                 /\ "success" \in DOMAIN version_manager'.result
                 /\ version_manager'.result.success
            ELSE /\ version_manager'.files = version_manager.files
                 /\ "success" \in DOMAIN version_manager'.result
                 /\ ~version_manager'.result.success]_<<version_manager, now>>

\* ---- C26 ----
\* C26: a stored version is never overwritten or altered by a later save,
\* validation or rollback, and after n saves exactly n versions are stored.
\* (Stated as the claim has it; two saves for one id within a second share a
\* version identifier and a file.)
C26_VersionsNeverOverwritten ==
    [][Managing =>
         /\ \A f \in DOMAIN version_manager.files :
               /\ f \in DOMAIN version_manager'.files
               /\ version_manager'.files[f] = version_manager.files[f]
         /\ Cardinality(DOMAIN version_manager'.files) = version_manager'.saves
      ]_<<version_manager, now>>

\* ======================= config validator: compare_configs ==================

\* The configurations compared: each of three keys absent ("" or 0) or with
\* one of two values.
Entry(key, value, absent) ==
    [k \in IF value = absent THEN {} ELSE {key} |-> value]

DiffConfigs ==
    {Entry("host", host, "") @@ Entry("port", port, 0) @@ Entry("maxmemory", maxmemory, "") :
        host \in {"", "10.0.0.5", "10.0.0.6"}, port \in {0, 6379, 6380},
        maxmemory \in {"", "256mb", "512mb"}}

\* A call compare_configs(old_config, new_config) and what it returned.
compare_configs_call(old_config, new_config) ==
    /\ version_manager' = [old_config |-> old_config, new_config |-> new_config,
                           diff |-> compare_configs(old_config, new_config)]
    /\ UNCHANGED version_frame

DiffInit == RestInit

DiffNext ==
    \E old_config \in DiffConfigs, new_config \in DiffConfigs :
        compare_configs_call(old_config, new_config)

DiffSpec == DiffInit /\ [][DiffNext]_version_manager

Compared == version_manager # None /\ "diff" \in DOMAIN version_manager

\* ---- C27 ----
\* The keys present on both sides with the same value.
UnchangedKeys(old_config, new_config) ==
    {k \in DOMAIN old_config \cap DOMAIN new_config : old_config[k] = new_config[k]}

\* C27: compare_configs returns the added entries (keys only in the new
\* configuration, with the new value), the removed entries (keys only in the
\* old one, with the old value), the modified entries (keys in both with
\* different values, with old and new value) and the number of unchanged keys;
\* the four classes are pairwise disjoint and together cover the union of keys.
C27_DiffPartitionsKeys ==
    Compared =>
      LET old_config == version_manager.old_config
          new_config == version_manager.new_config
          diff == version_manager.diff
          A == DOMAIN diff.added
          R == DOMAIN diff.removed
          M == DOMAIN diff.modified
          U == UnchangedKeys(old_config, new_config)
      IN /\ A = DOMAIN new_config \ DOMAIN old_config
         /\ R = DOMAIN old_config \ DOMAIN new_config
         /\ M = {k \in DOMAIN old_config \cap DOMAIN new_config :
                    old_config[k] # new_config[k]}
         /\ \A k \in A : diff.added[k] = new_config[k]
         /\ \A k \in R : diff.removed[k] = old_config[k]
         /\ \A k \in M : diff.modified[k] = [old |-> old_config[k], new |-> new_config[k]]
         /\ diff.unchanged = Cardinality(U)
         /\ A \cap R = {} /\ A \cap M = {} /\ A \cap U = {}
         /\ R \cap M = {} /\ R \cap U = {} /\ M \cap U = {}
         /\ A \cup R \cup M \cup U = DOMAIN old_config \cup DOMAIN new_config

\* A comparison with an added, a modified and an unchanged key.
C27_Witness ==
    /\ Compared
    /\ DOMAIN version_manager.diff.added # {}
    /\ DOMAIN version_manager.diff.modified # {}
    /\ version_manager.diff.unchanged > 0

\* ======================= config validator: get_safe_config ==================

\* A key is the sequence of its characters.
LowerOf ==
    [A |-> "a", B |-> "b", C |-> "c", D |-> "d", E |-> "e", F |-> "f", G |-> "g", H
     |-> "h", I |-> "i", J |-> "j", K |-> "k", L |-> "l", M |-> "m", N |-> "n", O |->
     "o", P |-> "p", Q |-> "q", R |-> "r", S |-> "s", T |-> "t", U |-> "u", V |->
     "v", W |-> "w", X |-> "x", Y |-> "y", Z |-> "z"]

\* str.lower()
lower(key) == [i \in 1..Len(key) |-> IF key[i] \in DOMAIN LowerOf THEN LowerOf[key[i]] ELSE key[i]]

\* sensitive in key
Contains(sensitive, key) ==
    \E i \in 1..(Len(key) - Len(sensitive) + 1) :
        SubSeq(key, i, i + Len(sensitive) - 1) = sensitive

\* sensitive_keys
sensitive_keys ==
    {<<"p", "a", "s", "s", "w", "o", "r", "d">>,
     <<"s", "e", "c", "r", "e", "t">>,
     <<"k", "e", "y">>,
     <<"t", "o", "k", "e", "n">>,
     <<"a", "u", "t", "h">>,
     <<"c", "r", "e", "d", "e", "n", "t", "i", "a", "l">>}

\* A variant of the test below that does not lower the key.
IsSensitive_exact(key) == \E sensitive \in sensitive_keys : Contains(sensitive, key)

\* any(sensitive in key.lower() for sensitive in sensitive_keys)
IsSensitive(key) == \E sensitive \in sensitive_keys : Contains(sensitive, lower(key))

\* get_safe_config(config): a copy of config with the value of every sensitive
\* key replaced.
get_safe_config(config) ==
    [key \in DOMAIN config |-> IF IsSensitive(key) THEN "******" ELSE config[key]]

\* The keys of the configurations passed in, and the value of each.
K_password == <<"p", "a", "s", "s", "w", "o", "r", "d">>

K_API_KEY == <<"A", "P", "I", "_", "K", "E", "Y">>

K_Secret == <<"S", "e", "c", "r", "e", "t">>

K_monkey == <<"m", "o", "n", "k", "e", "y">>

K_author == <<"a", "u", "t", "h", "o", "r">>

K_port == <<"p", "o", "r", "t">>

K_host == <<"h", "o", "s", "t">>

K_TOKEN == <<"T", "O", "K", "E", "N">>

SafeKeys == {K_password, K_API_KEY, K_Secret, K_monkey, K_author, K_port, K_host, K_TOKEN}

SafeValue(key) ==
    IF key = K_password THEN "s3cret-pw" ELSE
    IF key = K_API_KEY THEN "ak-1" ELSE
    IF key = K_Secret THEN "shh" ELSE
    IF key = K_monkey THEN "george" ELSE
    IF key = K_author THEN "ann" ELSE
    IF key = K_port THEN 6379 ELSE
    IF key = K_host THEN "10.0.0.5" ELSE "tk-9"

SafeConfigs == {[key \in keys |-> SafeValue(key)] : keys \in SUBSET SafeKeys}

\* A call get_safe_config(config): safe_config is config.copy() with items
\* assigned, config is the dictionary passed in as the call leaves it.
get_safe_config_call(config) ==
    /\ version_manager' = [passed |-> config, config |-> config,
                           safe_config |-> get_safe_config(config)]
    /\ UNCHANGED version_frame

SafeInit == RestInit

SafeNext == \E config \in SafeConfigs : get_safe_config_call(config)

SafeSpec == SafeInit /\ [][SafeNext]_version_manager

Masked == version_manager # None /\ "safe_config" \in DOMAIN version_manager

\* ---- C28 ----
\* The lower-cased key contains one of the six words.
NamesSecret(key) ==
    \E word \in sensitive_keys :
        \E i \in 1..Len(key) :
            /\ i + Len(word) - 1 <= Len(key)
            /\ \A j \in 1..Len(word) : lower(<<key[i + j - 1]>>) = <<word[j]>>

\* C28: get_safe_config masks with '******' exactly the keys whose lower-cased
\* name contains password, secret, key, token, auth or credential; every other
\* key keeps its value, the key set is the one passed in and the dictionary
\* passed in is not modified.
C28_MasksExactlySensitiveKeys ==
    Masked =>
      /\ DOMAIN version_manager.safe_config = DOMAIN version_manager.passed
      /\ \A key \in DOMAIN version_manager.passed :
            IF NamesSecret(key)
            THEN version_manager.safe_config[key] = "******"
            ELSE version_manager.safe_config[key] = version_manager.passed[key]
      /\ version_manager.config = version_manager.passed

\* A configuration with an upper-case sensitive key, a key that contains a
\* sensitive word inside another word, and a key that is not sensitive.
C28_Witness ==
    /\ Masked
    /\ {K_API_KEY, K_monkey, K_port} \subseteq DOMAIN version_manager.safe_config
    /\ version_manager.safe_config[K_API_KEY] = "******"
    /\ version_manager.safe_config[K_monkey] = "******"
    /\ version_manager.safe_config[K_port] = 6379

\* ======================= auth middleware: verify_ip_whitelist ===============

\* An address is the record of its dotted-quad text, [octets |-> <<a, b, c, d>>];
\* a whitelist entry with "/" carries the text after the slash as `prefix`;
\* text that is no dotted quad is [text |-> ...] (with slash |-> TRUE where it
\* contains "/"). Two canonical texts are equal exactly when the records are.
Address(a, b, c, d) == [octets |-> <<a, b, c, d>>]

Network(a, b, c, d, prefix) == [octets |-> <<a, b, c, d>>, prefix |-> prefix]

\* IP_WHITELIST as the module defines it.
IP_WHITELIST == <<Address(127, 0, 0, 1), Network(192, 168, 1, 0, 24)>>

\* Whitelists the module-level list can hold: the defined one; one with a
\* network that has host bits set; one with a prefix over 32; one with an octet
\* over 255 and a second literal; none; one with text that is no network and
\* the network of all addresses.
Whitelists ==
    {IP_WHITELIST,
     <<Network(192, 168, 1, 5, 24), Network(10, 0, 0, 0, 8)>>,
     <<Network(192, 168, 1, 0, 33), Network(192, 168, 0, 0, 23)>>,
     <<Network(256, 0, 0, 0, 8), Address(192, 168, 1, 5)>>,
     << >>,
     <<[text |-> "lan/internal", slash |-> TRUE], Network(0, 0, 0, 0, 0)>>,
     <<Network(10, 0, 0, 0, 8), Network(192, 168, 2, 0, 30)>>}

\* request.client.host: IPv4 addresses, an IPv6 address and a host name.
Clients ==
    {Address(a, b, c, d) : a \in {10, 127, 192}, b \in {0, 168}, c \in {0, 1, 2},
                           d \in {0, 1, 3, 5, 255}}
      \cup {[text |-> "::1", version |-> 6], [text |-> "testclient"]}

\* "/" in ip_range
HasSlash(ip_range) == "prefix" \in DOMAIN ip_range \/ "slash" \in DOMAIN ip_range

\* The two 16-bit halves of a 32-bit address, and the halves of the netmask of
\* a prefix length applied to them (x & mask).
High(octets) == octets[1] * 256 + octets[2]

Low(octets) == octets[3] * 256 + octets[4]

MaskHigh(x, prefix) == IF prefix >= 16 THEN x ELSE x - (x % Pow(2, 16 - prefix))

MaskLow(x, prefix) == IF prefix <= 16 THEN 0 ELSE x - (x % Pow(2, 32 - prefix))

\* A variant of the test below that accepts a network with host bits set.
ip_network_raises_lenient(ip_range) ==
    \/ "octets" \notin DOMAIN ip_range
    \/ \E i \in 1..4 : ip_range.octets[i] > 255
    \/ ip_range.prefix > 32

\* ipaddress.ip_network(ip_range) raises ValueError: no dotted quad of octets
\* up to 255, a prefix over 32, or (strict) host bits set.
ip_network_raises(ip_range) ==
    \/ "octets" \notin DOMAIN ip_range
    \/ \E i \in 1..4 : ip_range.octets[i] > 255
    \/ ip_range.prefix > 32
    \/ MaskHigh(High(ip_range.octets), ip_range.prefix) # High(ip_range.octets)
    \/ MaskLow(Low(ip_range.octets), ip_range.prefix) # Low(ip_range.octets)

\* ipaddress.ip_address(client_ip) raises ValueError.
ip_address_raises(client_ip) ==
    "octets" \notin DOMAIN client_ip /\ "version" \notin DOMAIN client_ip

\* ipaddress.ip_address(client_ip) in network: false across versions,
\* otherwise other._ip & netmask == network_address.
InNetwork(client_ip, ip_range) ==
    /\ "octets" \in DOMAIN client_ip
    /\ MaskHigh(High(client_ip.octets), ip_range.prefix)
         = MaskHigh(High(ip_range.octets), ip_range.prefix)
    /\ MaskLow(Low(client_ip.octets), ip_range.prefix)
         = MaskLow(Low(ip_range.octets), ip_range.prefix)

\* The loop over the entries with "/": an entry whose parsing raises is
\* passed over (except ValueError: continue).
InSomeRange(whitelist, client_ip) ==
    \E i \in 1..Len(whitelist) :
        /\ HasSlash(whitelist[i])
        /\ ~ip_network_raises(whitelist[i])
        /\ ~ip_address_raises(client_ip)
        /\ InNetwork(client_ip, whitelist[i])

\* The module is loaded with a whitelist.
load_whitelist(whitelist) ==
    /\ ip_request' = [IP_WHITELIST |-> whitelist]
    /\ UNCHANGED <<vars, forwarded, wrapper, check, now, alerter, health_monitor, adapter,
                   version_manager, error_tracker>>

\* verify_ip_whitelist(request): True, or HTTPException 403.
verify_ip_whitelist(client_ip) ==
    /\ ip_request # None
    /\ LET whitelist == ip_request.IP_WHITELIST
       IN ip_request' =
            [IP_WHITELIST |-> whitelist, client_ip |-> client_ip,
             status_code |->
               IF \E i \in 1..Len(whitelist) : whitelist[i] = client_ip THEN 200
               ELSE IF InSomeRange(whitelist, client_ip) THEN 200
               ELSE 403]
    /\ UNCHANGED <<vars, forwarded, wrapper, check, now, alerter, health_monitor, adapter,
                   version_manager, error_tracker>>

WhitelistInit == RestInit

WhitelistNext ==
    \/ \E whitelist \in Whitelists : load_whitelist(whitelist)
    \/ \E client_ip \in Clients : verify_ip_whitelist(client_ip)

WhitelistSpec == WhitelistInit /\ [][WhitelistNext]_ip_request

Verdict == ip_request # None /\ "status_code" \in DOMAIN ip_request

\* ---- C29 ----
\* A well-formed network entry: four octets up to 255, a prefix up to 32, and
\* an address that is the first of its block. Its block as a range of
\* addresses, compared on the two halves.
WellFormedCIDR(entry) ==
    /\ "octets" \in DOMAIN entry /\ "prefix" \in DOMAIN entry
    /\ \A i \in 1..4 : entry.octets[i] \in 0..255
    /\ entry.prefix \in 0..32
    /\ IF entry.prefix <= 16
       THEN High(entry.octets) % Pow(2, 16 - entry.prefix) = 0 /\ Low(entry.octets) = 0
       ELSE Low(entry.octets) % Pow(2, 32 - entry.prefix) = 0

LiesInside(client_ip, entry) ==
    /\ "octets" \in DOMAIN client_ip
    /\ IF entry.prefix <= 16
       THEN /\ High(client_ip.octets) >= High(entry.octets)
            /\ High(client_ip.octets) <= High(entry.octets) + Pow(2, 16 - entry.prefix) - 1
       ELSE /\ High(client_ip.octets) = High(entry.octets)
            /\ Low(client_ip.octets) >= Low(entry.octets)
            /\ Low(client_ip.octets) <= Low(entry.octets) + Pow(2, 32 - entry.prefix) - 1

\* C29: verify_ip_whitelist accepts a client address exactly when it equals a
\* literal entry of the whitelist or lies inside a well-formed CIDR entry, and
\* rejects every other address with 403 Forbidden; a malformed CIDR entry is
\* passed over and the entries after it are still looked at.
C29_AcceptsLiteralOrInsideCIDR ==
    Verdict =>
      LET whitelist == ip_request.IP_WHITELIST
          client_ip == ip_request.client_ip
          listed == \E i \in 1..Len(whitelist) :
                       \/ whitelist[i] = client_ip
                       \/ /\ WellFormedCIDR(whitelist[i])
                          /\ LiesInside(client_ip, whitelist[i])
      IN /\ ip_request.status_code \in {200, 403}
         /\ ip_request.status_code = 200 <=> listed

\* An address accepted by the entry that follows a malformed CIDR entry.
C29_Witness ==
    /\ Verdict
    /\ Len(ip_request.IP_WHITELIST) = 2
    /\ HasSlash(ip_request.IP_WHITELIST[1])
    /\ ~WellFormedCIDR(ip_request.IP_WHITELIST[1])
    /\ WellFormedCIDR(ip_request.IP_WHITELIST[2])
    /\ ip_request.status_code = 200

\* ======================= error handler: ErrorTracker ========================

\* Errors logged in a run.
MaxErrors == 3

\* Operations an error is logged for, and the limits asked for.
ErrorOperations == {"start", "stop"}

Limits == {1, 2}

\* The file of an error: <middleware_id>_<operation>_<timestamp>.json, the
\* timestamp being datetime.now() to the second. File names are compared as
\* strings: by the middleware id, then the operation, then the timestamp
\* (the ids have one length, no operation is a prefix of the other, the
\* timestamps have fourteen digits).
ErrorFile(middleware_id, operation, timestamp) == <<middleware_id, operation, timestamp>>

IdRank == [m \in MiddlewareIds |-> IF m = "mw-1" THEN 1 ELSE 2]

OperationRank == [o \in ErrorOperations |-> IF o = "start" THEN 1 ELSE 2]

NameBefore(f, g) ==
    \/ IdRank[f[1]] < IdRank[g[1]]
    \/ f[1] = g[1] /\ OperationRank[f[2]] < OperationRank[g[2]]
    \/ f[1] = g[1] /\ f[2] = g[2] /\ f[3] < g[3]

\* error_files.sort(reverse=True)
RECURSIVE SortedReverse(_)
SortedReverse(names) ==
    IF names = {} THEN << >>
    ELSE LET last == CHOOSE f \in names : \A g \in names \ {f} : NameBefore(g, f)
         IN <<last>> \o SortedReverse(names \ {last})

\* error_files[:limit]
Head_limit(files, limit) == SubSeq(files, 1, IF Len(files) < limit THEN Len(files) ELSE limit)

\* ErrorTracker(): an empty log directory. `logged` counts the calls of
\* log_error; each record carries the instant it was written at (the count),
\* as its "timestamp" field does to the microsecond.
ErrorTracker_init ==
    /\ error_tracker = None
    /\ error_tracker' = [files |-> << >>, logged |-> 0, errors |-> << >>]
    /\ UNCHANGED <<vars, forwarded, wrapper, check, now, alerter, health_monitor, adapter,
                   version_manager, ip_request>>

Tracking == error_tracker # None

\* A second of wall clock passes.
tracker_tick ==
    /\ Tracking /\ now < MaxSeconds
    /\ now' = now + 1
    /\ UNCHANGED <<vars, forwarded, wrapper, check, alerter, health_monitor, adapter,
                   version_manager, error_tracker, ip_request>>

\* log_error(middleware_id, operation, error): open(log_file, 'w') creates the
\* file or replaces the one of that name.
log_error(middleware_id, operation) ==
    /\ Tracking /\ error_tracker.logged < MaxErrors
    /\ LET log_file == ErrorFile(middleware_id, operation, now)
           error_data == [error_id |-> log_file, middleware_id |-> middleware_id,
                          operation |-> operation,
                          timestamp |-> error_tracker.logged + 1]
       IN error_tracker' =
            [error_tracker EXCEPT
               !.files = [f \in DOMAIN @ \cup {log_file} |->
                            IF f = log_file THEN error_data ELSE @[f]],
               !.logged = @ + 1]
    /\ UNCHANGED <<vars, forwarded, wrapper, check, now, alerter, health_monitor, adapter,
                   version_manager, ip_request>>

\* The loop of get_error_history over the first `limit` file names: a file
\* whose name does not start with middleware_id is passed over.
RECURSIVE Collected(_, _, _)
Collected(files, middleware_id, error_files) ==
    IF error_files = << >> THEN << >>
    ELSE LET file_name == Head(error_files)
             rest == Collected(files, middleware_id, Tail(error_files))
         IN IF middleware_id # "" /\ file_name[1] # middleware_id THEN rest
            ELSE <<files[file_name]>> \o rest

\* get_error_history(middleware_id, limit); middleware_id "" stands for None
\* (both are false in `if middleware_id and ...`).
get_error_history(middleware_id, limit) ==
    /\ Tracking
    /\ error_tracker' =
         [error_tracker EXCEPT
            !.errors = Collected(error_tracker.files, middleware_id,
                                 Head_limit(SortedReverse(DOMAIN error_tracker.files), limit))]
    /\ UNCHANGED <<vars, forwarded, wrapper, check, now, alerter, health_monitor, adapter,
                   version_manager, ip_request>>

TrackerInit == RestInit

TrackerNext ==
    \/ ErrorTracker_init
    \/ tracker_tick
    \/ \E middleware_id \in MiddlewareIds, operation \in ErrorOperations :
          log_error(middleware_id, operation)
    \/ \E middleware_id \in MiddlewareIds \cup {""}, limit \in Limits :
          get_error_history(middleware_id, limit)

TrackerSpec == TrackerInit /\ [][TrackerNext]_<<error_tracker, now>>

\* ---- C30 ----
\* The records of a middleware id (of all ids for ""), newest first.
RECURSIVE NewestFirst(_)
NewestFirst(records) ==
    IF records = {} THEN << >>
    ELSE LET newest == CHOOSE r \in records :
                          \A q \in records : q.timestamp <= r.timestamp
         IN <<newest>> \o NewestFirst(records \ {newest})

RecordsOf(middleware_id) ==
    {error_tracker.files[f] : f \in {g \in DOMAIN error_tracker.files :
                                       middleware_id = "" \/ g[1] = middleware_id}}

\* C30: get_error_history(middleware_id, limit=N) returns the N most recent
\* error records of that middleware id, newest first, and fewer than N only
\* when fewer exist; without an id, the N most recent over all ids.
\* (Stated as the claim has it; the first N file names are taken before the
\* id is looked at, and file names order by id and operation before time.)
C30_MostRecentOfThatId ==
    [][\A middleware_id \in MiddlewareIds \cup {""}, limit \in Limits :
          get_error_history(middleware_id, limit) =>
            error_tracker'.errors = Head_limit(NewestFirst(RecordsOf(middleware_id)), limit)
      ]_<<error_tracker, now>>

\* ======================= control plane: config_update =======================

\* ---- C31 ----
\* A step of the action of a config_update operation whose params carry a
\* mapping: a step of the worker's action or a segment of the gateway's
\* coroutine, on a run r or from the task message t.
ConfigUpdateRun(x) ==
    /\ x.operation_type = "config_update"
    /\ x.operation_id \in OperationIds
    /\ x.middleware_id \in DOMAIN MIDDLEWARE_DB
    /\ x.params # None
    /\ Get(x.params, "config", << >>) # NotADict

Merged(x) ==
    \A k \in DOMAIN Get(x.params, "config", << >>) :
        /\ k \in DOMAIN MIDDLEWARE_DB'[x.middleware_id].config
        /\ MIDDLEWARE_DB'[x.middleware_id].config[k] = x.params.config[k]

\* C31: a config_update operation executed with restart_after_update true
\* merges params.config into the configuration of the instance and then
\* restarts it (stop, then start), ending with status running; with
\* restart_after_update false the configuration is merged and no step of the
\* operation changes the status of the instance.
\* (Stated as the claim has it; the worker saves the instance object it loaded
\* when the operation began, status included.)
C31_ConfigUpdateMergesThenRestarts ==
    [][/\ \A r \in BagToSet(runs) :
            (ConfigUpdateRun(r) /\ (worker_act(r) \/ process_middleware_operation_resume(r))) =>
              /\ Head(r.todo) = "merge_config" => Merged(r)
              /\ ~Get(r.params, "restart_after_update", TRUE) =>
                    MIDDLEWARE_DB'[r.middleware_id].status = MIDDLEWARE_DB[r.middleware_id].status
              /\ (Get(r.params, "restart_after_update", TRUE) /\ Len(r.todo) = 1) =>
                    /\ Head(r.todo) = "start"
                    /\ MIDDLEWARE_DB'[r.middleware_id].status = "running"
       /\ \A t \in BagToSet(tasks) :
            (ConfigUpdateRun(t) /\ process_middleware_operation(t)) =>
              /\ Merged(t)
              /\ MIDDLEWARE_DB'[t.middleware_id].status = MIDDLEWARE_DB[t.middleware_id].status
      ]_vars

\* ======================= the health monitor: loop, alerters, start and stop ==

\* HealthCheck.__init__: check_interval, in seconds.
check_interval == 60

\* Steps of the clock, evaluations and registered alerters in a run.
MaxTicks == 3

MaxLoopChecks == 2

MaxAlerters == 2

Alerters == 1..MaxAlerters

\* last_check_time before the first evaluation (None).
NoTime == 0 - 1

\* HealthMonitor() with one MiddlewareHealthCheck added and the alerters
\* added: not running, no thread, the lock free. `pc` is the position of each
\* thread in _monitor_loop, `joining` says that stop() is inside join(),
\* `asked` marks the threads a stop() was called for; `result` is the result of
\* the evaluation a thread made, `called` and `raised` are the alerters
\* _trigger_alert called for it and those that raised.
monitor_init ==
    /\ health_monitor = None
    /\ health_monitor' =
         [running |-> FALSE, monitor_thread |-> Free, check_lock |-> Free,
          alerters |-> Alerters,
          pc |-> [t \in Threads |-> "unborn"],
          joining |-> FALSE,
          asked |-> [t \in Threads |-> FALSE],
          last_check_time |-> NoTime, previous_check_time |-> NoTime,
          evaluations |-> 0, ticks |-> 0,
          result |-> [t \in Threads |-> ""],
          alerter |-> [t \in Threads |-> 1],
          called |-> [t \in Threads |-> {}],
          raised |-> [t \in Threads |-> {}]]
    /\ UNCHANGED monitor_frame

Watching == health_monitor # None /\ "alerters" \in DOMAIN health_monitor

Position(t, pc) == Watching /\ health_monitor.pc[t] = pc

\* Wall clock passes.
monitor_tick(seconds) ==
    /\ Watching /\ health_monitor.ticks < MaxTicks
    /\ now' = now + seconds
    /\ health_monitor' = [health_monitor EXCEPT !.ticks = @ + 1]
    /\ UNCHANGED <<vars, version_manager, error_tracker, ip_request, forwarded,
                   wrapper, check, alerter, adapter>>

\* start(): returns at once while running; else sets running and starts a new
\* thread on _monitor_loop.
start(t) ==
    /\ Position(t, "unborn") /\ ~health_monitor.joining
    /\ \A u \in Threads : u < t => health_monitor.pc[u] # "unborn"
    /\ ~health_monitor.running
    /\ health_monitor' = [health_monitor EXCEPT !.running = TRUE, !.monitor_thread = t,
                                                !.pc[t] = "while"]
    /\ UNCHANGED monitor_frame

\* stop(): "self.running = False", then "if self.monitor_thread:" join begins.
stop_set ==
    /\ Watching /\ ~health_monitor.joining
    /\ health_monitor.running
    /\ health_monitor' =
         [health_monitor EXCEPT
            !.running = FALSE,
            !.joining = health_monitor.monitor_thread # Free,
            !.asked = [t \in Threads |-> @[t] \/ t = health_monitor.monitor_thread]]
    /\ UNCHANGED monitor_frame

\* stop(): self.monitor_thread.join(timeout=5)
join_timeout == 5

\* A thread can stay for five seconds where it is: inside check.check(), inside
\* an alerter, or waiting for the lock another thread holds.
CanOutlastJoin(t) ==
    \/ health_monitor.pc[t] \in {"in_check", "alert"}
    \/ health_monitor.pc[t] = "acquire" /\ health_monitor.check_lock \notin {Free, t}

\* stop(): join(timeout=5) returns, because the thread ended or because the
\* five seconds passed; "self.monitor_thread = None" in both cases.
stop_join(timed_out) ==
    /\ Watching /\ health_monitor.joining
    /\ IF timed_out
       THEN CanOutlastJoin(health_monitor.monitor_thread) /\ now' = now + join_timeout
       ELSE health_monitor.pc[health_monitor.monitor_thread] = "dead" /\ now' = now
    /\ health_monitor' = [health_monitor EXCEPT !.joining = FALSE, !.monitor_thread = Free]
    /\ UNCHANGED <<vars, version_manager, error_tracker, ip_request, forwarded,
                   wrapper, check, alerter, adapter>>

\* _monitor_loop: "while self.running:"
monitor_loop_while(t) ==
    /\ Position(t, "while")
    /\ health_monitor' = [health_monitor EXCEPT
                            !.pc[t] = IF health_monitor.running THEN "for" ELSE "dead"]
    /\ UNCHANGED monitor_frame

\* "if not check.last_check_time or (timezone.now() - check.last_check_time)
\*  .total_seconds() >= check.check_interval"
Due ==
    \/ health_monitor.last_check_time = NoTime
    \/ now - health_monitor.last_check_time >= check_interval

\* _monitor_loop: the test of the one registered check, before the lock.
monitor_loop_due(t) ==
    /\ Position(t, "for")
    /\ Due => health_monitor.evaluations < MaxLoopChecks
    /\ health_monitor' = [health_monitor EXCEPT !.pc[t] = IF Due THEN "acquire" ELSE "sleep"]
    /\ UNCHANGED monitor_frame

\* "with self.check_lock:" entered
monitor_loop_acquire(t) ==
    /\ Position(t, "acquire") /\ Acquirable(health_monitor.check_lock)
    /\ health_monitor' = [health_monitor EXCEPT !.check_lock = t, !.pc[t] = "in_check"]
    /\ UNCHANGED monitor_frame

\* "result = check.check()": MiddlewareHealthCheck.check sets last_check_time
\* on both of its paths and returns a result; a warning or critical result
\* goes to _trigger_alert.
monitor_loop_check(t, status) ==
    /\ Position(t, "in_check")
    /\ health_monitor' =
         [health_monitor EXCEPT
            !.previous_check_time = health_monitor.last_check_time,
            !.last_check_time = now,
            !.evaluations = @ + 1,
            !.result[t] = status,
            !.alerter[t] = 1,
            !.called[t] = {},
            !.raised[t] = {},
            !.pc[t] = IF status \in {"warning", "critical"} THEN "alert" ELSE "release"]
    /\ UNCHANGED monitor_frame

\* _trigger_alert: "for alerter in self.alerters: try: alerter.alert(check,
\* result) except Exception: log"; after the last alerter the with block ends.
trigger_alert(t, raises) ==
    /\ Position(t, "alert")
    /\ LET a == health_monitor.alerter[t]
       IN IF a \notin health_monitor.alerters
          THEN health_monitor' = [health_monitor EXCEPT !.pc[t] = "release"]
          ELSE health_monitor' =
                 [health_monitor EXCEPT
                    !.called[t] = @ \cup {a},
                    !.raised[t] = IF raises THEN @ \cup {a} ELSE @,
                    !.alerter[t] = a + 1]
    /\ UNCHANGED monitor_frame

\* the with block left
monitor_loop_release(t) ==
    /\ Position(t, "release")
    /\ health_monitor' = [health_monitor EXCEPT !.check_lock = Free, !.pc[t] = "sleep",
                                                !.result[t] = "", !.alerter[t] = 1,
                                                !.called[t] = {}, !.raised[t] = {}]
    /\ UNCHANGED monitor_frame

\* time.sleep(1)
monitor_loop_sleep(t) ==
    /\ Position(t, "sleep")
    /\ health_monitor' = [health_monitor EXCEPT !.pc[t] = "while"]
    /\ UNCHANGED monitor_frame

WatchInit == RestInit

WatchNext ==
    \/ monitor_init
    \/ \E seconds \in {1, check_interval - 1} : monitor_tick(seconds)
    \/ \E t \in Threads : start(t)
    \/ stop_set
    \/ \E timed_out \in BOOLEAN : stop_join(timed_out)
    \/ \E t \in Threads : monitor_loop_while(t)
    \/ \E t \in Threads : monitor_loop_due(t)
    \/ \E t \in Threads : monitor_loop_acquire(t)
    \/ \E t \in Threads, status \in {"healthy", "warning", "critical"} :
          monitor_loop_check(t, status)
    \/ \E t \in Threads, raises \in BOOLEAN : trigger_alert(t, raises)
    \/ \E t \in Threads : monitor_loop_release(t)
    \/ \E t \in Threads : monitor_loop_sleep(t)

WatchSpec == WatchInit /\ [][WatchNext]_<<health_monitor, now>>

\* ---- C32 ----
\* C32: the monitor loop evaluates the registered check only if it has never
\* run or at least check_interval seconds have passed since its last
\* evaluation; after an evaluation every registered alerter has been called if
\* the result is warning or critical and none if it is healthy, whether or not
\* an alerter raised, and the loop goes on.
\* (Stated as the claim has it; the interval is tested before the lock is
\* taken, and a loop that outlived stop() tests it alongside the new one.)
C32_EvaluatedWhenDueAlertersAllCalled ==
    Watching =>
      /\ health_monitor.previous_check_time # NoTime =>
            health_monitor.last_check_time - health_monitor.previous_check_time
              >= check_interval
      /\ \A t \in Threads :
            health_monitor.pc[t] = "release" =>
              health_monitor.called[t] =
                IF health_monitor.result[t] \in {"warning", "critical"}
                THEN health_monitor.alerters ELSE {}

\* ---- C35 ----
\* C35: at most one monitor loop thread that no stop() was called for is
\* alive; and a loop that was asked to stop does not pass "while self.running"
\* again, whatever start() calls follow.
\* (Stated as the claim has it; the loop reads the one running flag, which a
\* later start() sets again.)
C35_AtMostOneLoopNoResume ==
    [][Watching =>
         /\ Cardinality({t \in Threads : /\ health_monitor.pc[t] \notin {"unborn", "dead"}
                                          /\ ~health_monitor.asked[t]}) <= 1
         /\ \A t \in Threads :
               (health_monitor.asked[t] /\ health_monitor.pc[t] = "while")
                 => health_monitor'.pc[t] # "for"
      ]_<<health_monitor, now>>

\* ======================= adapters: restart ==================================

\* The adapter as adapter_service_init leaves it, with what an observer of
\* restart() records: the methods restart invoked, in order, how stop ended
\* and the status it left, and how restart itself ended.
adapter_restart_init(type, status) ==
    /\ adapter = None
    /\ adapter' = [type |-> type, status |-> status, pc |-> "idle", op |-> "none",
                   attempt |-> 0, outcome |-> "none", before |-> status,
                   restart |-> "idle", invoked |-> << >>, stop_outcome |-> "none",
                   left |-> status]
    /\ UNCHANGED adapter_frame

Restarting == InService /\ "restart" \in DOMAIN adapter

\* restart(): "self.stop()" is called.
restart_call ==
    /\ Restarting /\ adapter.restart = "idle"
    /\ adapter' = [adapter EXCEPT !.restart = "stop", !.op = "stop", !.pc = "command",
                                  !.attempt = 0, !.outcome = "none",
                                  !.before = adapter.status,
                                  !.invoked = <<"stop">>, !.stop_outcome = "none"]
    /\ UNCHANGED adapter_frame

\* A variant of the test below: the next statement runs however stop() ended.
Returned_always(outcome) == TRUE

\* "self.stop()" returned: the next statement of restart() runs. An exception
\* out of stop() leaves restart() instead.
Returned(outcome) == outcome = "returned"

\* restart(): stop() has ended; "return self.start()" is called, or the
\* exception of stop() propagates.
restart_after_stop ==
    /\ Restarting /\ adapter.restart = "stop" /\ adapter.pc = "done"
    /\ adapter' =
         IF Returned(adapter.outcome)
         THEN [adapter EXCEPT !.restart = "start", !.op = "start", !.pc = "command",
                              !.attempt = 0, !.outcome = "none",
                              !.invoked = Append(@, "start"),
                              !.stop_outcome = adapter.outcome,
                              !.left = adapter.status]
         ELSE [adapter EXCEPT !.restart = "raised",
                              !.stop_outcome = adapter.outcome,
                              !.left = adapter.status]
    /\ UNCHANGED adapter_frame

\* restart(): start() has ended; its result is returned, its exception raised.
restart_after_start ==
    /\ Restarting /\ adapter.restart = "start" /\ adapter.pc = "done"
    /\ adapter' = [adapter EXCEPT !.restart = adapter.outcome]
    /\ UNCHANGED adapter_frame

RestartInit == RestInit

RestartNext ==
    \/ \E type \in AdapterTypes, status \in STATUS_CHOICES : adapter_restart_init(type, status)
    \/ restart_call
    \/ \E ok \in BOOLEAN : Restarting /\ adapter_command(ok)
    \/ \E ok \in BOOLEAN : Restarting /\ adapter_verify(ok)
    \/ Restarting /\ adapter_save_status
    \/ Restarting /\ adapter_retry
    \/ restart_after_stop
    \/ restart_after_start

RestartSpec == RestartInit /\ [][RestartNext]_adapter

\* ---- C33 ----
\* C33: restart invokes stop and then start, in that order; start is invoked
\* only after stop has returned; if stop fails, start is not invoked, the
\* failure leaves restart, and the status stays as stop left it.
C33_StopThenStart ==
    Restarting =>
      /\ adapter.invoked \in {<< >>, <<"stop">>, <<"stop", "start">>}
      /\ adapter.invoked = <<"stop", "start">> => adapter.stop_outcome = "returned"
      /\ adapter.stop_outcome = "raised" =>
            /\ adapter.invoked = <<"stop">>
            /\ adapter.restart = "raised"
            /\ adapter.status = adapter.left
      /\ adapter.restart = "returned" =>
            adapter.invoked = <<"stop", "start">> /\ adapter.status = "running"

\* stop() failed on its last attempt and restart() has raised.
C33_Witness ==
    /\ Restarting
    /\ adapter.stop_outcome = "raised"
    /\ adapter.restart = "raised"
    /\ adapter.attempt = max_attempts

\* ======================= adapters: RedisAdapter.get_status ==================

\* What client.info() reports: used_memory of a maxmemory of 0 (no limit) or
\* 100, connected_clients of a maxclients of 0 or 10, the state of the last
\* RDB save.
UsedMemory == {50, 69, 70, 71, 89, 90, 91, 100}

MaxMemory == {0, 100}

ConnectedClients == {6, 7, 8, 9, 10}

MaxClients == {0, 10}

BgsaveStatus == {"ok", "err"}

\* "part / whole * 100 > percent": the quotient of two integers times 100 is
\* exactly the percentage where that is a whole number, so the test is one of
\* integers.
OverPercent(part, whole, percent) == part * 100 > percent * whole

\* get_status: the issue of a usage; "high" is the message of the 90 test
\* (too high), "elevated" that of the 70 test (rather high).
UsageIssue(metric, part, whole) ==
    IF whole > 0
    THEN IF OverPercent(part, whole, 90) THEN <<[metric |-> metric, level |-> "high"]>>
         ELSE IF OverPercent(part, whole, 70) THEN <<[metric |-> metric, level |-> "elevated"]>>
         ELSE << >>
    ELSE << >>

\* get_status() of the adapter of a running instance: the client answers, the
\* issues are derived and health_status
\* follows from them; or the client raises, the status of the instance is set
\* to error and a failure is returned (the body catches every exception, so
\* the @retry wrapper around it has nothing to retry).
get_status(raises, used_memory, maxmemory, connected_clients, maxclients, rdb_last_bgsave_status) ==
    /\ adapter = None
    /\ adapter' =
         IF raises
         THEN [type |-> "redis", status |-> "error", success |-> FALSE,
               info |-> << >>, health_issues |-> << >>, health_status |-> "none"]
         ELSE LET health_issues ==
                    UsageIssue("memory", used_memory, maxmemory)
                    \o UsageIssue("connections", connected_clients, maxclients)
                    \o (IF rdb_last_bgsave_status # "ok"
                        THEN <<[metric |-> "rdb", level |-> "abnormal"]>> ELSE << >>)
              IN [type |-> "redis", status |-> "running", success |-> TRUE,
                  info |-> [used_memory |-> used_memory, maxmemory |-> maxmemory,
                            connected_clients |-> connected_clients,
                            maxclients |-> maxclients],
                  health_issues |-> health_issues,
                  health_status |-> IF health_issues = << >> THEN "healthy" ELSE "warning"]
    /\ UNCHANGED adapter_frame

\* The caller drops the result.
get_status_done ==
    /\ adapter # None /\ "health_issues" \in DOMAIN adapter
    /\ adapter' = None
    /\ UNCHANGED adapter_frame

StatusInit == RestInit

StatusNext ==
    \/ \E raises \in BOOLEAN, used_memory \in UsedMemory, maxmemory \in MaxMemory,
          connected_clients \in ConnectedClients, maxclients \in MaxClients,
          rdb_last_bgsave_status \in BgsaveStatus :
          get_status(raises, used_memory, maxmemory, connected_clients, maxclients,
                     rdb_last_bgsave_status)
    \/ get_status_done

StatusSpec == StatusInit /\ [][StatusNext]_adapter

\* ---- C34 ----
\* The issues recorded for a metric.
IssuesOf(metric) ==
    {adapter.health_issues[i].level :
        i \in {j \in DOMAIN adapter.health_issues : adapter.health_issues[j].metric = metric}}

\* The issue the claim has for a usage of a maximum.
ClaimedIssue(part, whole) ==
    IF whole <= 0 THEN {}
    ELSE IF part * 100 >= 90 * whole THEN {"high"}
    ELSE IF part * 100 >= 70 * whole THEN {"elevated"}
    ELSE {}

\* C34: get_status records the critical-level issue when memory usage (and
\* likewise connection usage) is at least 90 % of the configured maximum and
\* the lesser warning when it is at least 70 % and below 90 %, the values
\* exactly 90 % and exactly 70 % included; health_status is healthy iff the
\* issue list is empty and warning otherwise.
\* (Stated as the claim has it; the code tests "> 90" and "> 70".)
C34_ThresholdsInclusive ==
    (adapter # None /\ "health_issues" \in DOMAIN adapter /\ adapter.success) =>
      /\ IssuesOf("memory") = ClaimedIssue(adapter.info.used_memory, adapter.info.maxmemory)
      /\ IssuesOf("connections")
           = ClaimedIssue(adapter.info.connected_clients, adapter.info.maxclients)
      /\ adapter.health_status = (IF adapter.health_issues = << >> THEN "healthy" ELSE "warning")

\* ======================= health check bound to an adapter ===================

\* MySQLAdapter.get_status(): the flat dictionary it returns. Where the
\* instance is not running the figures are 0; where a query fails the status
\* is "error" and the message is added. memory_usage is in MB, cpu_usage is
\* the fixed 2.5 (tenths here).
MySQLAdapter_get_status(status, query_ok, uptime, connections, memory_usage) ==
    IF status # "running"
    THEN [status |-> status, version |-> "8.0.27", uptime |-> 0, connections |-> 0,
          memory_usage |-> 0, cpu_usage |-> 0]
    ELSE IF ~query_ok
    THEN [status |-> "error", version |-> "8.0.27", uptime |-> 0, connections |-> 0,
          memory_usage |-> 0, cpu_usage |-> 0, error |-> "query_failed"]
    ELSE [status |-> status, version |-> "8.0.27", uptime |-> uptime,
          connections |-> connections, memory_usage |-> memory_usage, cpu_usage |-> 25]

\* MongoDBAdapter.get_status(): the same keys, cpu_usage from serverStatus.
MongoDBAdapter_get_status(status, query_ok, uptime, connections, memory_usage, cpu_usage) ==
    IF status # "running"
    THEN [status |-> status, version |-> "5.0.3", uptime |-> 0, connections |-> 0,
          memory_usage |-> 0, cpu_usage |-> 0]
    ELSE IF ~query_ok
    THEN [status |-> "error", version |-> "5.0.3", uptime |-> 0, connections |-> 0,
          memory_usage |-> 0, cpu_usage |-> 0, error |-> "command_failed"]
    ELSE [status |-> status, version |-> "5.0.3", uptime |-> uptime,
          connections |-> connections, memory_usage |-> memory_usage,
          cpu_usage |-> cpu_usage]

\* RedisAdapter.get_status(): {"success": True, "status": status_info}.
RedisAdapter_get_status(status, connected_clients, cpu_usage) ==
    [success |-> TRUE,
     status |-> [status |-> status, connected_clients |-> connected_clients,
                 maxclients |-> 10, cpu_usage |-> cpu_usage]]

BoundInit == RestInit

BoundNext ==
    \/ MiddlewareHealthCheck_init
    \/ \E status \in {"running", "stopped"}, query_ok \in BOOLEAN, uptime \in {10, 1000},
          connections \in {0, 5}, memory_usage \in {0, 64, 128},
          response_time \in ResponseTimes :
          /\ now < MaxChecks
          /\ MiddlewareHealthCheck_check(
                MySQLAdapter_get_status(status, query_ok, uptime, connections, memory_usage),
                response_time)
    \/ \E status \in {"running", "stopped"}, query_ok \in BOOLEAN, uptime \in {10, 1000},
          connections \in {0, 5}, memory_usage \in {0, 64, 128}, cpu_usage \in {0, 3},
          response_time \in ResponseTimes :
          /\ now < MaxChecks
          /\ MiddlewareHealthCheck_check(
                MongoDBAdapter_get_status(status, query_ok, uptime, connections,
                                          memory_usage, cpu_usage),
                response_time)
    \/ \E status \in {"running", "stopped"}, connected_clients \in {5, 7},
          cpu_usage \in {3, 50}, response_time \in ResponseTimes :
          /\ now < MaxChecks
          /\ MiddlewareHealthCheck_check(
                RedisAdapter_get_status(status, connected_clients, cpu_usage), response_time)

BoundSpec == BoundInit /\ [][BoundNext]_<<check, now>>

\* ---- C36 ----
\* The answer of a MySQLAdapter or MongoDBAdapter: a dictionary with the
\* figures at its top level.
FlatAnswer == Evaluated /\ "connections" \in DOMAIN check.status_result

\* C36: a check bound to a MySQLAdapter or MongoDBAdapter whose get_status
\* reports status running, with every metric and the response time below the
\* warning threshold, evaluates to healthy, as it does for the RedisAdapter.
\* (Stated as the claim has it; the check looks for the key "success", which
\* these two adapters do not return.)
C36_FlatStatusEvaluatesHealthy ==
    (/\ FlatAnswer
     /\ check.status_result.status = "running"
     /\ check.status_result.cpu_usage < 70
     /\ check.response_time < 10)
      => check.result.status = "healthy"

\* ======================= adapters: upgrade, the backup step ==================

\* ---- C37 ----
\* The events at which the try block of upgrade ran: the old container stopped
\* and removed or the new package installed, to the end or up to a failure.
SwapEvents == {"upgraded", "upgrade_failed", "upgrade_failed_after_backup"}

\* C37: in an upgrade called with backup true no destructive step is taken
\* unless the backup that precedes it succeeded: a failed backup ends the pass
\* of upgrade before the swap. (Stated as the claim has it; the Redis adapter's
\* backup reports its failure in the dictionary it returns, which upgrade does
\* not test.)
C37_NoSwapWithoutBackup ==
    (adapter # None /\ "log" \in DOMAIN adapter /\ adapter.backup) =>
      \A i \in DOMAIN adapter.log :
         adapter.log[i] \in SwapEvents =>
            (i > 1 /\ adapter.log[i - 1] = "backup_taken")

\* ---- C38 ----
\* C38: a call of upgrade that ends in failure, at whichever step, ends with
\* status error and the version it began with; and no finished call leaves the
\* status updating. (Stated as the claim has it; the MySQL adapter's backup
\* raises before the try block whose handler sets the status.)
C38_FailedUpgradeEndsInError ==
    (adapter # None /\ "log" \in DOMAIN adapter /\ adapter.pc = "done") =>
      /\ adapter.status # "updating"
      /\ adapter.outcome = "raised" =>
            (adapter.status = "error" /\ adapter.version = "6.2.6")

\* ======================= alerters: the cooldown clock ========================

\* ---- C39 ----
\* No alert of the check was dispatched for a result strictly between i and k.
NoneSentBetween(n, i, k) ==
    \A m \in ResultsOf(n) : (i < m /\ m < k) => ~alerter.seen[m].sent

\* C39: a result that is suppressed, by the cooldown or by min_level, does not
\* move the cooldown clock of its check: the clock never reads the time of a
\* suppressed result, and for results of one check at t0 < t1 < t2, the one at
\* t0 dispatched, the one at t1 suppressed with t1 - t0 < cooldown_period, and
\* t2 - t0 >= cooldown_period, the alert-worthy result at t2 is dispatched
\* however small t2 - t1 is.
C39_SuppressedKeepsClock ==
    alerter # None =>
      \A n \in CheckNames :
        /\ \A j \in ResultsOf(n) :
              (~alerter.seen[j].sent /\ n \in DOMAIN alerter.last_alert_time)
                => alerter.last_alert_time[n] # alerter.seen[j].at
        /\ \A i, j, k \in ResultsOf(n) :
              (/\ i < j /\ j < k
               /\ alerter.seen[i].sent /\ ~alerter.seen[j].sent
               /\ NoneSentBetween(n, i, k)
               /\ alerter.seen[j].at - alerter.seen[i].at < cooldown_period
               /\ alerter.seen[k].at - alerter.seen[i].at >= cooldown_period
               /\ Worthy(k))
                => alerter.seen[k].sent

\* An alert at t0, a result suppressed 299 s later and, one second after that,
\* a result that is dispatched.
C39_Witness ==
    /\ alerter # None
    /\ \E i, j, k \in ResultsOf("mysql-main") :
          /\ i < j /\ j < k
          /\ alerter.seen[i].sent /\ ~alerter.seen[j].sent /\ alerter.seen[k].sent
          /\ Worthy(j)
          /\ alerter.seen[j].at - alerter.seen[i].at = cooldown_period - 1
          /\ alerter.seen[k].at - alerter.seen[j].at = 1

\* ======================= control plane: the fields of an operation ===========

\* ---- C40 ----
\* C40: in every reachable state an operation record carries a result only if
\* its status is completed and an error_message only if its status is failed,
\* never both; and in the durable store completed_at is set exactly when the
\* status is completed or failed. (Stated as the claim has it; an executor run
\* on a record that already ended violates it.)
C40_ResultAndErrorFollowStatus ==
    \A id \in OperationIds :
       /\ OPERATIONS_DB[id].result # None => OPERATIONS_DB[id].status = "completed"
       /\ OPERATIONS_DB[id].error_message # None => OPERATIONS_DB[id].status = "failed"
       /\ ~(OPERATIONS_DB[id].result # None /\ OPERATIONS_DB[id].error_message # None)
       /\ backend = "durable" =>
             (OPERATIONS_DB[id].completed_at # None <=> OPERATIONS_DB[id].status \in Terminal)

====
